---------------------------- MODULE Spec2Model ----------------------------
(***************************************************************************)
(* A model of the ASL recognition backend (src/backend/main.py): the       *)
(* one-euro filter bank, the hand feature extractor, the rule based        *)
(* matcher over the static lexicon, the SentenceBuilder (majority vote     *)
(* and cooldown) and the WebSocket endpoint that wires them per client.    *)
(*                                                                         *)
(* Numbers.  Python floats are modelled in fixed point:                    *)
(*   - times are integers in milliseconds (0.5 s is 500);                  *)
(*   - landmark coordinates are integers in hundredths of the normalised   *)
(*     unit (0.05 is 5);                                                   *)
(*   - a confidence hits/total is the integer hits * Scale / total, which  *)
(*     is exact for every total up to 7 checks;                            *)
(*   - fractions of the configuration are percentages (0.65 is 65).        *)
(* Python's None is the string "None" for labels and the empty tuple for   *)
(* an Optional[HandState].  Python index i of a list is index i + 1 here.  *)
(***************************************************************************)
EXTENDS Integers, Sequences, FiniteSets, TLC

----------------------------------------------------------------------------
(* Config, main.py lines 31-46 *)

CONFIDENCE_THRESHOLD_PCT == 75
BUFFER_SIZE == 8
MAJORITY_THRESHOLD_PCT == 65
WORD_COOLDOWN == 500

(* Confidences are multiples of 1/Scale. *)
Scale == 3 * 4 * 5 * 7

None == "None"

----------------------------------------------------------------------------
(* Domain enums, main.py lines 147-165 *)

Finger == {"THUMB", "INDEX", "MIDDLE", "RING", "PINKY"}
FingerState == {"FOLDED", "CURLED", "EXTENDED"}
Orientation == {"UP", "DOWN", "LEFT", "RIGHT", "FORWARD", "BACKWARD"}

----------------------------------------------------------------------------
(* ASLLexicon.get_definitions, in declaration order (a Python dict keeps   *)
(* insertion order).  The "desc" strings are left out; the keys "check"    *)
(* and "spread" are kept although nothing reads them.                      *)

get_definitions ==
  <<
    \* line 195
    [name |-> "0",
     fingers |-> ("INDEX" :> {"FOLDED", "CURLED"} @@ "MIDDLE" :> {"EXTENDED", "CURLED"} @@ "RING" :> {"EXTENDED", "CURLED"} @@ "PINKY" :> {"EXTENDED", "CURLED"}),
     special |-> "THUMB_INDEX_TOUCH"],
    \* line 205
    [name |-> "1",
     fingers |-> ("INDEX" :> {"EXTENDED"} @@ "MIDDLE" :> {"FOLDED"} @@ "RING" :> {"FOLDED"} @@ "PINKY" :> {"FOLDED"})],
    \* line 213
    [name |-> "2",
     fingers |-> ("INDEX" :> {"EXTENDED"} @@ "MIDDLE" :> {"EXTENDED"} @@ "RING" :> {"FOLDED"} @@ "PINKY" :> {"FOLDED"})],
    \* line 221
    [name |-> "3",
     fingers |-> ("THUMB" :> {"EXTENDED"} @@ "INDEX" :> {"EXTENDED"} @@ "MIDDLE" :> {"EXTENDED"} @@ "RING" :> {"FOLDED"} @@ "PINKY" :> {"FOLDED"})],
    \* line 230
    [name |-> "4",
     fingers |-> ("THUMB" :> {"FOLDED"} @@ "INDEX" :> {"EXTENDED"} @@ "MIDDLE" :> {"EXTENDED"} @@ "RING" :> {"EXTENDED"} @@ "PINKY" :> {"EXTENDED"})],
    \* line 239
    [name |-> "5",
     fingers |-> ("THUMB" :> {"EXTENDED"} @@ "INDEX" :> {"EXTENDED"} @@ "MIDDLE" :> {"EXTENDED"} @@ "RING" :> {"EXTENDED"} @@ "PINKY" :> {"EXTENDED"}),
     spread |-> TRUE],
    \* line 251
    [name |-> "A",
     fingers |-> ("INDEX" :> {"FOLDED"} @@ "MIDDLE" :> {"FOLDED"} @@ "RING" :> {"FOLDED"} @@ "PINKY" :> {"FOLDED"} @@ "THUMB" :> {"EXTENDED"}),
     orientation |-> {"UP"}],
    \* line 261
    [name |-> "B",
     fingers |-> ("INDEX" :> {"EXTENDED"} @@ "MIDDLE" :> {"EXTENDED"} @@ "RING" :> {"EXTENDED"} @@ "PINKY" :> {"EXTENDED"} @@ "THUMB" :> {"FOLDED", "CURLED"}),
     orientation |-> {"UP"}],
    \* line 271
    [name |-> "C",
     fingers |-> ("INDEX" :> {"CURLED"} @@ "MIDDLE" :> {"CURLED"} @@ "RING" :> {"CURLED"} @@ "PINKY" :> {"CURLED"} @@ "THUMB" :> {"CURLED", "EXTENDED"}),
     orientation |-> {"LEFT", "RIGHT"}],
    \* line 281
    [name |-> "D",
     fingers |-> ("INDEX" :> {"EXTENDED"} @@ "MIDDLE" :> {"FOLDED", "CURLED"} @@ "RING" :> {"FOLDED", "CURLED"} @@ "PINKY" :> {"FOLDED", "CURLED"}),
     special |-> "THUMB_MIDDLE_TOUCH"],
    \* line 290
    [name |-> "E",
     fingers |-> ("INDEX" :> {"FOLDED", "CURLED"} @@ "MIDDLE" :> {"FOLDED", "CURLED"} @@ "RING" :> {"FOLDED", "CURLED"} @@ "PINKY" :> {"FOLDED", "CURLED"} @@ "THUMB" :> {"FOLDED", "CURLED"}),
     check |-> "NAILS_VISIBLE"],
    \* line 300
    [name |-> "F",
     fingers |-> ("INDEX" :> {"CURLED", "FOLDED"} @@ "MIDDLE" :> {"EXTENDED"} @@ "RING" :> {"EXTENDED"} @@ "PINKY" :> {"EXTENDED"}),
     special |-> "THUMB_INDEX_TOUCH"],
    \* line 309
    [name |-> "G",
     fingers |-> ("INDEX" :> {"EXTENDED"} @@ "MIDDLE" :> {"FOLDED"} @@ "RING" :> {"FOLDED"} @@ "PINKY" :> {"FOLDED"} @@ "THUMB" :> {"EXTENDED"}),
     orientation |-> {"LEFT", "RIGHT"}],
    \* line 319
    [name |-> "H",
     fingers |-> ("INDEX" :> {"EXTENDED"} @@ "MIDDLE" :> {"EXTENDED"} @@ "RING" :> {"FOLDED"} @@ "PINKY" :> {"FOLDED"}),
     orientation |-> {"LEFT", "RIGHT"}],
    \* line 328
    [name |-> "I",
     fingers |-> ("INDEX" :> {"FOLDED"} @@ "MIDDLE" :> {"FOLDED"} @@ "RING" :> {"FOLDED"} @@ "PINKY" :> {"EXTENDED"}),
     orientation |-> {"UP"}],
    \* line 337
    [name |-> "K",
     fingers |-> ("INDEX" :> {"EXTENDED"} @@ "MIDDLE" :> {"EXTENDED"} @@ "RING" :> {"FOLDED"} @@ "PINKY" :> {"FOLDED"} @@ "THUMB" :> {"EXTENDED"}),
     orientation |-> {"UP"}],
    \* line 347
    [name |-> "L",
     fingers |-> ("INDEX" :> {"EXTENDED"} @@ "MIDDLE" :> {"FOLDED"} @@ "RING" :> {"FOLDED"} @@ "PINKY" :> {"FOLDED"} @@ "THUMB" :> {"EXTENDED"}),
     orientation |-> {"UP"}],
    \* line 357
    [name |-> "M",
     fingers |-> ("INDEX" :> {"FOLDED"} @@ "MIDDLE" :> {"FOLDED"} @@ "RING" :> {"FOLDED"} @@ "PINKY" :> {"FOLDED"} @@ "THUMB" :> {"FOLDED"}),
     special |-> "THUMB_UNDER_RING"],
    \* line 369
    [name |-> "N",
     fingers |-> ("INDEX" :> {"FOLDED"} @@ "MIDDLE" :> {"FOLDED"} @@ "RING" :> {"FOLDED"} @@ "PINKY" :> {"FOLDED"}),
     special |-> "THUMB_UNDER_MIDDLE"],
    \* line 378
    [name |-> "O",
     fingers |-> ("INDEX" :> {"CURLED"} @@ "MIDDLE" :> {"CURLED"} @@ "RING" :> {"CURLED"} @@ "PINKY" :> {"CURLED"}),
     special |-> "ALL_TIPS_TOUCH"],
    \* line 387
    [name |-> "P",
     fingers |-> ("INDEX" :> {"EXTENDED"} @@ "MIDDLE" :> {"EXTENDED"} @@ "RING" :> {"FOLDED"} @@ "PINKY" :> {"FOLDED"} @@ "THUMB" :> {"EXTENDED"}),
     orientation |-> {"DOWN"}],
    \* line 398
    [name |-> "Q",
     fingers |-> ("INDEX" :> {"EXTENDED"} @@ "MIDDLE" :> {"FOLDED"} @@ "RING" :> {"FOLDED"} @@ "PINKY" :> {"FOLDED"} @@ "THUMB" :> {"EXTENDED"}),
     orientation |-> {"DOWN"}],
    \* line 409
    [name |-> "R",
     fingers |-> ("INDEX" :> {"EXTENDED"} @@ "MIDDLE" :> {"EXTENDED"} @@ "RING" :> {"FOLDED"} @@ "PINKY" :> {"FOLDED"}),
     special |-> "INDEX_MIDDLE_CROSS"],
    \* line 418
    [name |-> "S",
     fingers |-> ("INDEX" :> {"FOLDED"} @@ "MIDDLE" :> {"FOLDED"} @@ "RING" :> {"FOLDED"} @@ "PINKY" :> {"FOLDED"} @@ "THUMB" :> {"FOLDED"}),
     orientation |-> {"UP"}],
    \* line 428
    [name |-> "T",
     fingers |-> ("INDEX" :> {"FOLDED"} @@ "MIDDLE" :> {"FOLDED"} @@ "RING" :> {"FOLDED"} @@ "PINKY" :> {"FOLDED"}),
     special |-> "THUMB_UNDER_INDEX"],
    \* line 437
    [name |-> "U",
     fingers |-> ("INDEX" :> {"EXTENDED"} @@ "MIDDLE" :> {"EXTENDED"} @@ "RING" :> {"FOLDED"} @@ "PINKY" :> {"FOLDED"}),
     check |-> "INDEX_MIDDLE_TOGETHER"],
    \* line 446
    [name |-> "V",
     fingers |-> ("INDEX" :> {"EXTENDED"} @@ "MIDDLE" :> {"EXTENDED"} @@ "RING" :> {"FOLDED"} @@ "PINKY" :> {"FOLDED"}),
     check |-> "INDEX_MIDDLE_APART"],
    \* line 455
    [name |-> "W",
     fingers |-> ("INDEX" :> {"EXTENDED"} @@ "MIDDLE" :> {"EXTENDED"} @@ "RING" :> {"EXTENDED"} @@ "PINKY" :> {"FOLDED"})],
    \* line 463
    [name |-> "X",
     fingers |-> ("INDEX" :> {"CURLED"} @@ "MIDDLE" :> {"FOLDED"} @@ "RING" :> {"FOLDED"} @@ "PINKY" :> {"FOLDED"}),
     orientation |-> {"UP", "LEFT", "RIGHT"}],
    \* line 472
    [name |-> "Y",
     fingers |-> ("INDEX" :> {"FOLDED"} @@ "MIDDLE" :> {"FOLDED"} @@ "RING" :> {"FOLDED"} @@ "PINKY" :> {"EXTENDED"} @@ "THUMB" :> {"EXTENDED"})],
    \* line 483
    [name |-> "Z_START",
     fingers |-> ("INDEX" :> {"EXTENDED"} @@ "MIDDLE" :> {"FOLDED"} @@ "RING" :> {"FOLDED"} @@ "PINKY" :> {"FOLDED"}),
     orientation |-> {"UP"}],
    \* line 492
    [name |-> "I LOVE YOU",
     fingers |-> ("INDEX" :> {"EXTENDED"} @@ "MIDDLE" :> {"FOLDED"} @@ "RING" :> {"FOLDED"} @@ "PINKY" :> {"EXTENDED"} @@ "THUMB" :> {"EXTENDED"})],
    \* line 502
    [name |-> "ZERO",
     fingers |-> ("INDEX" :> {"CURLED"} @@ "MIDDLE" :> {"EXTENDED"} @@ "RING" :> {"EXTENDED"} @@ "PINKY" :> {"EXTENDED"} @@ "THUMB" :> {"EXTENDED"}),
     special |-> "THUMB_INDEX_TOUCH"],
    \* line 512
    [name |-> "ONE",
     fingers |-> ("INDEX" :> {"EXTENDED"} @@ "MIDDLE" :> {"FOLDED"} @@ "RING" :> {"FOLDED"} @@ "PINKY" :> {"FOLDED"})],
    \* line 520
    [name |-> "TWO",
     fingers |-> ("INDEX" :> {"EXTENDED"} @@ "MIDDLE" :> {"EXTENDED"} @@ "RING" :> {"FOLDED"} @@ "PINKY" :> {"FOLDED"}),
     check |-> "INDEX_MIDDLE_APART"],
    \* line 529
    [name |-> "THREE",
     fingers |-> ("INDEX" :> {"EXTENDED"} @@ "MIDDLE" :> {"EXTENDED"} @@ "RING" :> {"EXTENDED"} @@ "PINKY" :> {"FOLDED"} @@ "THUMB" :> {"EXTENDED"})],
    \* line 538
    [name |-> "FOUR",
     fingers |-> ("INDEX" :> {"EXTENDED"} @@ "MIDDLE" :> {"EXTENDED"} @@ "RING" :> {"EXTENDED"} @@ "PINKY" :> {"EXTENDED"} @@ "THUMB" :> {"FOLDED"})],
    \* line 547
    [name |-> "FIVE",
     fingers |-> ("INDEX" :> {"EXTENDED"} @@ "MIDDLE" :> {"EXTENDED"} @@ "RING" :> {"EXTENDED"} @@ "PINKY" :> {"EXTENDED"} @@ "THUMB" :> {"EXTENDED"})],
    \* line 556
    [name |-> "SIX",
     fingers |-> ("INDEX" :> {"EXTENDED"} @@ "MIDDLE" :> {"EXTENDED"} @@ "RING" :> {"EXTENDED"} @@ "PINKY" :> {"FOLDED"} @@ "THUMB" :> {"FOLDED"}),
     special |-> "THUMB_PINKY_TOUCH"],
    \* line 566
    [name |-> "SEVEN",
     fingers |-> ("INDEX" :> {"EXTENDED"} @@ "MIDDLE" :> {"EXTENDED"} @@ "RING" :> {"FOLDED"} @@ "PINKY" :> {"EXTENDED"} @@ "THUMB" :> {"FOLDED"})],
    \* line 575
    [name |-> "EIGHT",
     fingers |-> ("INDEX" :> {"EXTENDED"} @@ "MIDDLE" :> {"FOLDED"} @@ "RING" :> {"EXTENDED"} @@ "PINKY" :> {"EXTENDED"} @@ "THUMB" :> {"FOLDED"})],
    \* line 584
    [name |-> "NINE",
     fingers |-> ("INDEX" :> {"FOLDED"} @@ "MIDDLE" :> {"EXTENDED"} @@ "RING" :> {"EXTENDED"} @@ "PINKY" :> {"EXTENDED"} @@ "THUMB" :> {"FOLDED"})],
    \* line 594
    [name |-> "HELLO",
     fingers |-> ("INDEX" :> {"EXTENDED"} @@ "MIDDLE" :> {"EXTENDED"} @@ "RING" :> {"EXTENDED"} @@ "PINKY" :> {"EXTENDED"} @@ "THUMB" :> {"EXTENDED"})],
    \* line 603
    [name |-> "YES",
     fingers |-> ("INDEX" :> {"FOLDED"} @@ "MIDDLE" :> {"FOLDED"} @@ "RING" :> {"FOLDED"} @@ "PINKY" :> {"FOLDED"} @@ "THUMB" :> {"EXTENDED"})],
    \* line 612
    [name |-> "NO",
     fingers |-> ("INDEX" :> {"EXTENDED"} @@ "MIDDLE" :> {"EXTENDED"} @@ "RING" :> {"FOLDED"} @@ "PINKY" :> {"FOLDED"} @@ "THUMB" :> {"EXTENDED"}),
     special |-> "INDEX_MIDDLE_THUMB_SNAP"],
    \* line 622
    [name |-> "OK",
     fingers |-> ("INDEX" :> {"CURLED"} @@ "MIDDLE" :> {"EXTENDED"} @@ "RING" :> {"EXTENDED"} @@ "PINKY" :> {"EXTENDED"}),
     special |-> "THUMB_INDEX_TOUCH"],
    \* line 631
    [name |-> "CALL",
     fingers |-> ("INDEX" :> {"FOLDED"} @@ "MIDDLE" :> {"FOLDED"} @@ "RING" :> {"FOLDED"} @@ "PINKY" :> {"EXTENDED"} @@ "THUMB" :> {"EXTENDED"})],
    \* line 640
    [name |-> "STOP",
     fingers |-> ("INDEX" :> {"EXTENDED"} @@ "MIDDLE" :> {"EXTENDED"} @@ "RING" :> {"EXTENDED"} @@ "PINKY" :> {"EXTENDED"} @@ "THUMB" :> {"EXTENDED"}),
     orientation |-> {"FORWARD"}],
    \* line 651
    [name |-> "HELP",
     fingers |-> ("INDEX" :> {"FOLDED"} @@ "MIDDLE" :> {"FOLDED"} @@ "RING" :> {"FOLDED"} @@ "PINKY" :> {"FOLDED"} @@ "THUMB" :> {"EXTENDED"}),
     orientation |-> {"UP"}],
    \* line 661
    [name |-> "THANK YOU",
     fingers |-> ("INDEX" :> {"EXTENDED"} @@ "MIDDLE" :> {"EXTENDED"} @@ "RING" :> {"EXTENDED"} @@ "PINKY" :> {"EXTENDED"} @@ "THUMB" :> {"EXTENDED"}),
     orientation |-> {"FORWARD"}],
    \* line 671
    [name |-> "PLEASE",
     fingers |-> ("INDEX" :> {"EXTENDED"} @@ "MIDDLE" :> {"EXTENDED"} @@ "RING" :> {"EXTENDED"} @@ "PINKY" :> {"EXTENDED"} @@ "THUMB" :> {"FOLDED"})],
    \* line 680
    [name |-> "SORRY",
     fingers |-> ("INDEX" :> {"FOLDED"} @@ "MIDDLE" :> {"FOLDED"} @@ "RING" :> {"FOLDED"} @@ "PINKY" :> {"FOLDED"} @@ "THUMB" :> {"FOLDED"})],
    \* line 689
    [name |-> "GOOD",
     fingers |-> ("INDEX" :> {"FOLDED"} @@ "MIDDLE" :> {"FOLDED"} @@ "RING" :> {"FOLDED"} @@ "PINKY" :> {"FOLDED"} @@ "THUMB" :> {"EXTENDED"}),
     orientation |-> {"FORWARD"}],
    \* line 699
    [name |-> "BAD",
     fingers |-> ("INDEX" :> {"EXTENDED"} @@ "MIDDLE" :> {"EXTENDED"} @@ "RING" :> {"EXTENDED"} @@ "PINKY" :> {"EXTENDED"} @@ "THUMB" :> {"EXTENDED"}),
     orientation |-> {"DOWN"}],
    \* line 709
    [name |-> "WATER",
     fingers |-> ("INDEX" :> {"EXTENDED"} @@ "MIDDLE" :> {"FOLDED"} @@ "RING" :> {"FOLDED"} @@ "PINKY" :> {"FOLDED"} @@ "THUMB" :> {"EXTENDED"}),
     special |-> "THUMB_INDEX_TOUCH"],
    \* line 719
    [name |-> "FOOD",
     fingers |-> ("INDEX" :> {"CURLED"} @@ "MIDDLE" :> {"CURLED"} @@ "RING" :> {"CURLED"} @@ "PINKY" :> {"CURLED"} @@ "THUMB" :> {"CURLED"}),
     special |-> "ALL_TIPS_TOUCH"],
    \* line 729
    [name |-> "DRINK",
     fingers |-> ("INDEX" :> {"CURLED"} @@ "MIDDLE" :> {"CURLED"} @@ "RING" :> {"CURLED"} @@ "PINKY" :> {"CURLED"} @@ "THUMB" :> {"EXTENDED"})],
    \* line 738
    [name |-> "MONEY",
     fingers |-> ("INDEX" :> {"EXTENDED"} @@ "MIDDLE" :> {"EXTENDED"} @@ "RING" :> {"FOLDED"} @@ "PINKY" :> {"FOLDED"} @@ "THUMB" :> {"EXTENDED"}),
     special |-> "THUMB_INDEX_TOUCH"],
    \* line 748
    [name |-> "HOME",
     fingers |-> ("INDEX" :> {"CURLED"} @@ "MIDDLE" :> {"CURLED"} @@ "RING" :> {"CURLED"} @@ "PINKY" :> {"CURLED"} @@ "THUMB" :> {"CURLED"})],
    \* line 757
    [name |-> "WORK",
     fingers |-> ("INDEX" :> {"FOLDED"} @@ "MIDDLE" :> {"FOLDED"} @@ "RING" :> {"FOLDED"} @@ "PINKY" :> {"FOLDED"} @@ "THUMB" :> {"FOLDED"}),
     orientation |-> {"DOWN"}],
    \* line 767
    [name |-> "FRIEND",
     fingers |-> ("INDEX" :> {"CURLED"} @@ "MIDDLE" :> {"FOLDED"} @@ "RING" :> {"FOLDED"} @@ "PINKY" :> {"FOLDED"} @@ "THUMB" :> {"CURLED"})],
    \* line 776
    [name |-> "LOVE",
     fingers |-> ("INDEX" :> {"FOLDED"} @@ "MIDDLE" :> {"FOLDED"} @@ "RING" :> {"FOLDED"} @@ "PINKY" :> {"FOLDED"} @@ "THUMB" :> {"FOLDED"})],
    \* line 785
    [name |-> "HAPPY",
     fingers |-> ("INDEX" :> {"EXTENDED"} @@ "MIDDLE" :> {"EXTENDED"} @@ "RING" :> {"EXTENDED"} @@ "PINKY" :> {"EXTENDED"} @@ "THUMB" :> {"EXTENDED"}),
     orientation |-> {"UP"}],
    \* line 795
    [name |-> "SAD",
     fingers |-> ("INDEX" :> {"EXTENDED"} @@ "MIDDLE" :> {"EXTENDED"} @@ "RING" :> {"EXTENDED"} @@ "PINKY" :> {"EXTENDED"} @@ "THUMB" :> {"FOLDED"}),
     orientation |-> {"DOWN"}],
    \* line 805
    [name |-> "HUNGRY",
     fingers |-> ("INDEX" :> {"CURLED"} @@ "MIDDLE" :> {"CURLED"} @@ "RING" :> {"CURLED"} @@ "PINKY" :> {"CURLED"} @@ "THUMB" :> {"EXTENDED"}),
     orientation |-> {"DOWN"}],
    \* line 815
    [name |-> "TIRED",
     fingers |-> ("INDEX" :> {"CURLED"} @@ "MIDDLE" :> {"CURLED"} @@ "RING" :> {"CURLED"} @@ "PINKY" :> {"CURLED"} @@ "THUMB" :> {"CURLED"}),
     orientation |-> {"DOWN"}],
    \* line 825
    [name |-> "BATHROOM",
     fingers |-> ("INDEX" :> {"FOLDED"} @@ "MIDDLE" :> {"FOLDED"} @@ "RING" :> {"FOLDED"} @@ "PINKY" :> {"FOLDED"} @@ "THUMB" :> {"EXTENDED"}),
     special |-> "THUMB_INDEX_TOUCH"],
    \* line 835
    [name |-> "PHONE",
     fingers |-> ("INDEX" :> {"FOLDED"} @@ "MIDDLE" :> {"FOLDED"} @@ "RING" :> {"FOLDED"} @@ "PINKY" :> {"EXTENDED"} @@ "THUMB" :> {"EXTENDED"})],
    \* line 844
    [name |-> "WAIT",
     fingers |-> ("INDEX" :> {"EXTENDED"} @@ "MIDDLE" :> {"EXTENDED"} @@ "RING" :> {"EXTENDED"} @@ "PINKY" :> {"EXTENDED"} @@ "THUMB" :> {"EXTENDED"}),
     spread |-> TRUE],
    \* line 854
    [name |-> "COME",
     fingers |-> ("INDEX" :> {"CURLED"} @@ "MIDDLE" :> {"FOLDED"} @@ "RING" :> {"FOLDED"} @@ "PINKY" :> {"FOLDED"} @@ "THUMB" :> {"FOLDED"})],
    \* line 863
    [name |-> "GO",
     fingers |-> ("INDEX" :> {"EXTENDED"} @@ "MIDDLE" :> {"FOLDED"} @@ "RING" :> {"FOLDED"} @@ "PINKY" :> {"FOLDED"} @@ "THUMB" :> {"FOLDED"}),
     orientation |-> {"FORWARD"}],
    \* line 873
    [name |-> "MORE",
     fingers |-> ("INDEX" :> {"CURLED"} @@ "MIDDLE" :> {"CURLED"} @@ "RING" :> {"CURLED"} @@ "PINKY" :> {"CURLED"} @@ "THUMB" :> {"CURLED"}),
     special |-> "ALL_TIPS_TOUCH"],
    \* line 883
    [name |-> "FINISHED",
     fingers |-> ("INDEX" :> {"EXTENDED"} @@ "MIDDLE" :> {"EXTENDED"} @@ "RING" :> {"EXTENDED"} @@ "PINKY" :> {"EXTENDED"} @@ "THUMB" :> {"EXTENDED"}),
     spread |-> TRUE,
     orientation |-> {"DOWN"}]
  >>

SignNames == {get_definitions[i].name : i \in DOMAIN get_definitions}

----------------------------------------------------------------------------
(* Vector helpers (numpy arithmetic on 3-vectors) *)

Sub(a, b) == <<a[1] - b[1], a[2] - b[2], a[3] - b[3]>>
Dot(a, b) == a[1] * b[1] + a[2] * b[2] + a[3] * b[3]
NormSq(v) == Dot(v, v)

(* The touch distance 0.05 of lines 1015, 1098, 1102 and 1108.  A norm is  *)
(* compared with it through its square: sqrt(n) < 5 iff n < 25.            *)
TOUCH_THRESHOLD == 5
Touches(p, q) == NormSq(Sub(p, q)) < TOUCH_THRESHOLD * TOUCH_THRESHOLD

(* Landmark i (Python index) of a coordinate array. *)
LM(landmarks, i) == landmarks[i + 1]

----------------------------------------------------------------------------
(* ASLRecognizer._calculate_match_score, lines 1056-1121 *)

(* step 1: one check per finger listed, a hit when the observed state is   *)
(* in the required list *)
FingerChecks(sign_def) ==
  IF "fingers" \in DOMAIN sign_def THEN DOMAIN sign_def.fingers ELSE {}

(* variant of the finger check: a CURLED finger is taken for an EXTENDED    *)
(* one *)
FingerHits_partial(hand_state, sign_def) ==
  {f \in FingerChecks(sign_def) :
     \/ hand_state.fingers[f] \in sign_def.fingers[f]
     \/ hand_state.fingers[f] = "CURLED" /\ "EXTENDED" \in sign_def.fingers[f]}

FingerHits(hand_state, sign_def) ==
  {f \in FingerChecks(sign_def) : hand_state.fingers[f] \in sign_def.fingers[f]}

(* step 2: the orientation check *)
OrientationHit(hand_state, sign_def) ==
  hand_state.palm_orientation \in sign_def.orientation

(* variant of step 3: ALL_TIPS_TOUCH asks for the ring and pinky tips too *)
SpecialPassed_four_tips(check_type, landmarks) ==
  CASE check_type = "THUMB_INDEX_TOUCH" ->
         Touches(LM(landmarks, 4), LM(landmarks, 8))
    [] check_type = "THUMB_MIDDLE_TOUCH" ->
         Touches(LM(landmarks, 4), LM(landmarks, 12))
    [] check_type = "ALL_TIPS_TOUCH" ->
         /\ Touches(LM(landmarks, 8), LM(landmarks, 4))
         /\ Touches(LM(landmarks, 12), LM(landmarks, 4))
         /\ Touches(LM(landmarks, 16), LM(landmarks, 4))
         /\ Touches(LM(landmarks, 20), LM(landmarks, 4))
    [] check_type = "THUMB_UNDER_INDEX" ->
         LM(landmarks, 4)[1] > LM(landmarks, 5)[1]
    [] OTHER -> FALSE

(* variant of step 3: a check of an unknown name passes *)
SpecialPassed_lenient(check_type, landmarks) ==
  CASE check_type = "THUMB_INDEX_TOUCH" ->
         Touches(LM(landmarks, 4), LM(landmarks, 8))
    [] check_type = "THUMB_MIDDLE_TOUCH" ->
         Touches(LM(landmarks, 4), LM(landmarks, 12))
    [] check_type = "ALL_TIPS_TOUCH" ->
         /\ Touches(LM(landmarks, 8), LM(landmarks, 4))
         /\ Touches(LM(landmarks, 12), LM(landmarks, 4))
    [] check_type = "THUMB_UNDER_INDEX" ->
         LM(landmarks, 4)[1] > LM(landmarks, 5)[1]
    [] OTHER -> TRUE

(* step 3: the special geometric checks; an unknown name leaves            *)
(* check_passed False *)
SpecialPassed(check_type, landmarks) ==
  CASE check_type = "THUMB_INDEX_TOUCH" ->
         Touches(LM(landmarks, 4), LM(landmarks, 8))
    [] check_type = "THUMB_MIDDLE_TOUCH" ->
         Touches(LM(landmarks, 4), LM(landmarks, 12))
    [] check_type = "ALL_TIPS_TOUCH" ->
         /\ Touches(LM(landmarks, 8), LM(landmarks, 4))
         /\ Touches(LM(landmarks, 12), LM(landmarks, 4))
    [] check_type = "THUMB_UNDER_INDEX" ->
         LM(landmarks, 4)[1] > LM(landmarks, 5)[1]
    [] OTHER -> FALSE

MatchHits(hand_state, sign_def) ==
    Cardinality(FingerHits(hand_state, sign_def))
  + (IF "orientation" \in DOMAIN sign_def /\ OrientationHit(hand_state, sign_def)
       THEN 1 ELSE 0)
  + (IF "special" \in DOMAIN sign_def
        /\ SpecialPassed(sign_def.special, hand_state.raw_landmarks)
       THEN 1 ELSE 0)

MatchTotal(sign_def) ==
    Cardinality(FingerChecks(sign_def))
  + (IF "orientation" \in DOMAIN sign_def THEN 1 ELSE 0)
  + (IF "special" \in DOMAIN sign_def THEN 1 ELSE 0)

calculate_match_score(hand_state, sign_def) ==
  IF MatchTotal(sign_def) = 0
    THEN 0
    ELSE (MatchHits(hand_state, sign_def) * Scale) \div MatchTotal(sign_def)

----------------------------------------------------------------------------
(* ASLRecognizer.predict, lines 1131-1148: the scan of the lexicon        *)

(* variant of the loop: an entry that ties with the best so far replaces   *)
(* it *)
RECURSIVE ScanLexicon_last_wins(_, _, _, _)
ScanLexicon_last_wins(hand_state, i, best_match, best_confidence) ==
  IF i > Len(get_definitions)
    THEN <<best_match, best_confidence>>
    ELSE LET confidence == calculate_match_score(hand_state, get_definitions[i])
         IN IF confidence >= best_confidence /\ confidence > 0
              THEN ScanLexicon_last_wins(hand_state, i + 1, get_definitions[i].name, confidence)
              ELSE ScanLexicon_last_wins(hand_state, i + 1, best_match, best_confidence)

(* The loop of lines 1137-1142 over entries i..n, carrying                 *)
(* (best_match, best_confidence). *)
RECURSIVE ScanLexicon(_, _, _, _)
ScanLexicon(hand_state, i, best_match, best_confidence) ==
  IF i > Len(get_definitions)
    THEN <<best_match, best_confidence>>
    ELSE LET confidence == calculate_match_score(hand_state, get_definitions[i])
         IN IF confidence > best_confidence
              THEN ScanLexicon(hand_state, i + 1, get_definitions[i].name, confidence)
              ELSE ScanLexicon(hand_state, i + 1, best_match, best_confidence)

(* variant of the threshold test: a best score equal to the threshold is   *)
(* rejected *)
match_hand_above(hand_state) ==
  LET best == ScanLexicon(hand_state, 1, None, 0)
  IN IF best[2] * 100 > CONFIDENCE_THRESHOLD_PCT * Scale
       THEN [gesture |-> best[1], confidence |-> best[2]]
       ELSE [gesture |-> None, confidence |-> best[2]]

(* variant of the threshold test: below the threshold no confidence is     *)
(* returned *)
match_hand_silent(hand_state) ==
  LET best == ScanLexicon(hand_state, 1, None, 0)
  IN IF best[2] * 100 >= CONFIDENCE_THRESHOLD_PCT * Scale
       THEN [gesture |-> best[1], confidence |-> best[2]]
       ELSE [gesture |-> None, confidence |-> 0]

(* lines 1131-1148, for the HandState the extractor produced *)
match_hand(hand_state) ==
  LET best == ScanLexicon(hand_state, 1, None, 0)
  IN IF best[2] * 100 >= CONFIDENCE_THRESHOLD_PCT * Scale
       THEN [gesture |-> best[1], confidence |-> best[2]]
       ELSE [gesture |-> None, confidence |-> best[2]]

----------------------------------------------------------------------------
(* SentenceBuilder, lines 1154-1198.  A builder is the record of its three *)
(* mutable fields. *)

NewSentenceBuilder ==
  [current_sentence |-> <<>>, frame_buffer |-> <<>>, last_word_time |-> 0]

(* variant of the deque: a full deque refuses the new element *)
deque_append_keep_oldest(buffer, x) ==
  IF Len(buffer) = BUFFER_SIZE THEN buffer ELSE Append(buffer, x)

(* deque(maxlen=BUFFER_SIZE).append: the oldest element falls out of a     *)
(* full deque *)
deque_append(buffer, x) ==
  IF Len(buffer) = BUFFER_SIZE THEN Append(Tail(buffer), x) ELSE Append(buffer, x)

Count(buffer, x) == Cardinality({i \in DOMAIN buffer : buffer[i] = x})

(* Counter(buffer).most_common(1)[0][0]: the highest count, and among      *)
(* equal counts the label met first in the buffer *)
most_common(buffer) ==
  LET top == CHOOSE i \in DOMAIN buffer :
               /\ \A j \in DOMAIN buffer : Count(buffer, buffer[j]) <= Count(buffer, buffer[i])
               /\ \A j \in 1..(i - 1) : Count(buffer, buffer[j]) < Count(buffer, buffer[i])
  IN buffer[top]

(* variant of _commit_word: a repeat of the last token is dropped whatever  *)
(* time has passed *)
commit_word_no_repeat(sb, word, t) ==
  IF /\ sb.current_sentence # <<>>
     /\ sb.current_sentence[Len(sb.current_sentence)] = word
    THEN sb
    ELSE [sb EXCEPT !.current_sentence = Append(@, word), !.last_word_time = t]

(* variant of _commit_word: no repeat is dropped *)
commit_word_always(sb, word, t) ==
  [sb EXCEPT !.current_sentence = Append(@, word), !.last_word_time = t]

(* variant of _commit_word: a dropped repeat restarts the cooldown *)
commit_word_refresh(sb, word, t) ==
  IF /\ sb.current_sentence # <<>>
     /\ sb.current_sentence[Len(sb.current_sentence)] = word
     /\ (t - sb.last_word_time) < WORD_COOLDOWN
    THEN [sb EXCEPT !.last_word_time = t]
    ELSE [sb EXCEPT !.current_sentence = Append(@, word), !.last_word_time = t]

(* variant of _commit_word: the sentence keeps its two newest tokens *)
commit_word_sliding(sb, word, t) ==
  IF /\ sb.current_sentence # <<>>
     /\ sb.current_sentence[Len(sb.current_sentence)] = word
     /\ (t - sb.last_word_time) < WORD_COOLDOWN
    THEN sb
    ELSE [sb EXCEPT !.current_sentence =
                      IF Len(@) < 2 THEN Append(@, word) ELSE <<@[Len(@)], word>>,
                    !.last_word_time = t]

(* _commit_word, lines 1181-1191 *)
commit_word(sb, word, t) ==
  IF /\ sb.current_sentence # <<>>
     /\ sb.current_sentence[Len(sb.current_sentence)] = word
     /\ (t - sb.last_word_time) < WORD_COOLDOWN
    THEN sb
    ELSE [sb EXCEPT !.current_sentence = Append(@, word), !.last_word_time = t]

(* variant of add_prediction: a plain majority of the buffer commits *)
add_prediction_plain_majority(sb, prediction, t) ==
  IF prediction \in {None, ""}
    THEN sb
    ELSE LET buffered == [sb EXCEPT !.frame_buffer = deque_append(@, prediction)]
             winner == most_common(buffered.frame_buffer)
         IN IF /\ Len(buffered.frame_buffer) = BUFFER_SIZE
               /\ Count(buffered.frame_buffer, winner) * 2 > BUFFER_SIZE
              THEN [commit_word(buffered, winner, t) EXCEPT !.frame_buffer = <<>>]
              ELSE buffered

(* variant of add_prediction: the vote is taken from six labels on *)
add_prediction_early_vote(sb, prediction, t) ==
  IF prediction \in {None, ""}
    THEN sb
    ELSE LET buffered == [sb EXCEPT !.frame_buffer = deque_append(@, prediction)]
             winner == most_common(buffered.frame_buffer)
         IN IF /\ Len(buffered.frame_buffer) >= BUFFER_SIZE - 2
               /\ Count(buffered.frame_buffer, winner) * 100
                    > BUFFER_SIZE * MAJORITY_THRESHOLD_PCT
              THEN [commit_word(buffered, winner, t) EXCEPT !.frame_buffer = <<>>]
              ELSE buffered

(* variant of add_prediction: the buffer is kept after a commit *)
add_prediction_no_reset(sb, prediction, t) ==
  IF prediction \in {None, ""}
    THEN sb
    ELSE LET buffered == [sb EXCEPT !.frame_buffer = deque_append(@, prediction)]
             winner == most_common(buffered.frame_buffer)
         IN IF /\ Len(buffered.frame_buffer) = BUFFER_SIZE
               /\ Count(buffered.frame_buffer, winner) * 100
                    > BUFFER_SIZE * MAJORITY_THRESHOLD_PCT
              THEN commit_word(buffered, winner, t)
              ELSE buffered

(* add_prediction, lines 1165-1179; a prediction of None or "" is falsy *)
add_prediction(sb, prediction, t) ==
  IF prediction \in {None, ""}
    THEN sb
    ELSE LET buffered == [sb EXCEPT !.frame_buffer = deque_append(@, prediction)]
             winner == most_common(buffered.frame_buffer)
         IN IF /\ Len(buffered.frame_buffer) = BUFFER_SIZE
               /\ Count(buffered.frame_buffer, winner) * 100
                    > BUFFER_SIZE * MAJORITY_THRESHOLD_PCT
              THEN [commit_word(buffered, winner, t) EXCEPT !.frame_buffer = <<>>]
              ELSE buffered

RECURSIVE Join(_)
Join(words) ==
  IF words = <<>> THEN ""
  ELSE IF Len(words) = 1 THEN words[1]
  ELSE words[1] \o " " \o Join(Tail(words))

(* get_sentence, lines 1193-1194 *)
get_sentence(sb) == Join(sb.current_sentence)

(* variant of clear: the vote buffer is kept *)
clear_sentence_only(sb) == [sb EXCEPT !.current_sentence = <<>>]

(* clear, lines 1196-1198 *)
clear(sb) == [sb EXCEPT !.current_sentence = <<>>, !.frame_buffer = <<>>]

----------------------------------------------------------------------------
(* OneEuroFilter, lines 78-116.  A filter is the record of its mutable     *)
(* fields; min_cutoff, beta and d_cutoff are fixed by _get_filter          *)
(* (line 913) and the constructor's default (line 83).                     *)
(* Units: t in ms, x in hundredths, dx in hundredths per second, cutoff    *)
(* in mHz, a smoothing factor in thousandths.                              *)

FILTER_MIN_CUTOFF == 1500
FILTER_BETA == 8
D_CUTOFF == 1000
TWO_PI == 6283

(* Python's None in the place of a number (a coordinate read with          *)
(* lm.get('x') from a landmark that has no such key, line 925): a value    *)
(* outside every coordinate range.  Arithmetic on it raises TypeError.     *)
NoNumber == -1000000

NewOneEuroFilter(t0, x0) == [t_prev |-> t0, x_prev |-> x0, dx_prev |-> 0]

Abs(n) == IF n < 0 THEN -n ELSE n

(* smoothing_factor, lines 91-93: r / (r + 1) with r = 2 pi cutoff t_e.    *)
(* r is held in thousandths; whole seconds and the remaining milliseconds  *)
(* of t_e are multiplied apart, and r / (r + 1) is taken as                *)
(* 1 - 1 / (r + 1), rounded down, to stay within 32 bits.                  *)
smoothing_factor(t_e, cutoff) ==
  LET k == (TWO_PI * cutoff) \div 1000
      r == k * (t_e \div 1000) + (k * (t_e % 1000)) \div 1000
  IN 1000 - (1000000 + r + 999) \div (r + 1000)

(* exponential_smoothing, lines 95-96, rounded to the nearest unit *)
exponential_smoothing(a, x, x_prev) ==
  (a * x + (1000 - a) * x_prev + 500) \div 1000

(* variant of __call__ that takes a call without elapsed time as a new     *)
(* start *)
filter_call_restart(f, t, x) ==
  LET t_e == t - f.t_prev
  IN IF t_e <= 0
       THEN [out |-> x, filter |-> [t_prev |-> t, x_prev |-> x, dx_prev |-> 0],
             raised |-> FALSE]
     ELSE IF x = NoNumber \/ f.x_prev = NoNumber
       THEN [out |-> NoNumber, filter |-> f, raised |-> TRUE]
       ELSE LET a_d == smoothing_factor(t_e, D_CUTOFF)
                dx == ((x - f.x_prev) * 1000) \div t_e
                dx_hat == exponential_smoothing(a_d, dx, f.dx_prev)
                cutoff == FILTER_MIN_CUTOFF + FILTER_BETA * Abs(dx_hat) * 10
                a == smoothing_factor(t_e, cutoff)
                x_hat == exponential_smoothing(a, x, f.x_prev)
            IN [out |-> x_hat,
                filter |-> [t_prev |-> t, x_prev |-> x_hat, dx_prev |-> dx_hat],
                raised |-> FALSE]

(* __call__, lines 98-116: the value returned and the filter after the     *)
(* call.  The difference x - x_prev of line 106 raises when either is      *)
(* None; the fields are assigned after it (lines 113-115), so a call that  *)
(* raises leaves the filter as it was.                                     *)
filter_call(f, t, x) ==
  LET t_e == t - f.t_prev
  IN IF t_e <= 0
       THEN [out |-> x, filter |-> f, raised |-> FALSE]
     ELSE IF x = NoNumber \/ f.x_prev = NoNumber
       THEN [out |-> NoNumber, filter |-> f, raised |-> TRUE]
       ELSE LET a_d == smoothing_factor(t_e, D_CUTOFF)
                dx == ((x - f.x_prev) * 1000) \div t_e
                dx_hat == exponential_smoothing(a_d, dx, f.dx_prev)
                cutoff == FILTER_MIN_CUTOFF + FILTER_BETA * Abs(dx_hat) * 10
                a == smoothing_factor(t_e, cutoff)
                x_hat == exponential_smoothing(a, x, f.x_prev)
            IN [out |-> x_hat,
                filter |-> [t_prev |-> t, x_prev |-> x_hat, dx_prev |-> dx_hat],
                raised |-> FALSE]

----------------------------------------------------------------------------
(* VectorUtils, lines 118-141 *)

RECURSIVE SqrtIter(_, _)
SqrtIter(n, x) ==
  LET y == (x + n \div x) \div 2
  IN IF y >= x THEN x ELSE SqrtIter(n, y)

(* the integer part of the square root *)
Sqrt(n) == IF n = 0 THEN 0 ELSE SqrtIter(n, n)

(* cos(d degrees) * 10000 for d = 0..180, at index d + 1 *)
CosTable ==
  <<
     10000, 9998, 9994, 9986, 9976, 9962, 9945, 9925, 9903, 9877,
     9848, 9816, 9781, 9744, 9703, 9659, 9613, 9563, 9511, 9455,
     9397, 9336, 9272, 9205, 9135, 9063, 8988, 8910, 8829, 8746,
     8660, 8572, 8480, 8387, 8290, 8192, 8090, 7986, 7880, 7771,
     7660, 7547, 7431, 7314, 7193, 7071, 6947, 6820, 6691, 6561,
     6428, 6293, 6157, 6018, 5878, 5736, 5592, 5446, 5299, 5150,
     5000, 4848, 4695, 4540, 4384, 4226, 4067, 3907, 3746, 3584,
     3420, 3256, 3090, 2924, 2756, 2588, 2419, 2250, 2079, 1908,
     1736, 1564, 1392, 1219, 1045, 872, 698, 523, 349, 175,
     0, -175, -349, -523, -698, -872, -1045, -1219, -1392, -1564,
     -1736, -1908, -2079, -2250, -2419, -2588, -2756, -2924, -3090, -3256,
     -3420, -3584, -3746, -3907, -4067, -4226, -4384, -4540, -4695, -4848,
     -5000, -5150, -5299, -5446, -5592, -5736, -5878, -6018, -6157, -6293,
     -6428, -6561, -6691, -6820, -6947, -7071, -7193, -7314, -7431, -7547,
     -7660, -7771, -7880, -7986, -8090, -8192, -8290, -8387, -8480, -8572,
     -8660, -8746, -8829, -8910, -8988, -9063, -9135, -9205, -9272, -9336,
     -9397, -9455, -9511, -9563, -9613, -9659, -9703, -9744, -9781, -9816,
     -9848, -9877, -9903, -9925, -9945, -9962, -9976, -9986, -9994, -9998,
     -10000
  >>

(* np.degrees(np.arccos(c)) in tenths of a degree, for c in                *)
(* ten-thousandths: the whole degree from the table, the tenths by linear  *)
(* interpolation between two entries                                       *)
ArcCosDeg(c) ==
  LET d == Cardinality({k \in 1..180 : CosTable[k + 1] >= c})
  IN IF d = 180 THEN 1800
     ELSE 10 * d + (10 * (CosTable[d + 1] - c)) \div (CosTable[d + 1] - CosTable[d + 2])

Clip(c, lo, hi) == IF c < lo THEN lo ELSE IF c > hi THEN hi ELSE c

(* np.dot of the two normalised vectors, in ten-thousandths:               *)
(* dot / sqrt(|v1|^2 |v2|^2), the root taken with two more digits when     *)
(* the product leaves room for them                                        *)
UnitDot(v1, v2) ==
  LET p == NormSq(v1) * NormSq(v2)
  IN IF p < 200000
       THEN (Dot(v1, v2) * 1000000) \div Sqrt(p * 10000)
       ELSE (Dot(v1, v2) * 10000) \div Sqrt(p)

(* calculate_angle, lines 134-141, in tenths of a degree.                  *)
(* normalize_vector leaves a zero vector as it is, so the dot product      *)
(* with it is 0.                                                           *)
calculate_angle(v1, v2) ==
  IF NormSq(v1) = 0 \/ NormSq(v2) = 0
    THEN ArcCosDeg(0)
    ELSE ArcCosDeg(Clip(UnitDot(v1, v2), -10000, 10000))

Cross(a, b) ==
  <<a[2] * b[3] - a[3] * b[2], a[3] * b[1] - a[1] * b[3], a[1] * b[2] - a[2] * b[1]>>

(* A component over the norm, in ten-thousandths.  Floating division is   *)
(* symmetric in the sign and never turns a non-zero component of these     *)
(* magnitudes into zero, so the quotient is taken on the magnitude,        *)
(* rounded up, and the sign is put back.                                   *)
Over(c, norm) ==
  LET q == (Abs(c) * 10000 + norm - 1) \div norm
  IN IF c < 0 THEN -q ELSE q

(* normalize_vector, lines 127-131, components in ten-thousandths *)
normalize_vector(v) ==
  LET norm == Sqrt(NormSq(v))
  IN IF norm = 0 THEN v
     ELSE <<Over(v[1], norm), Over(v[2], norm), Over(v[3], norm)>>

----------------------------------------------------------------------------
(* HandFeatureExtractor, lines 900-1047 *)

(* variant of _get_filter that starts a new filter from the value 0 *)
get_filter_from_zero(bank, idx, t, val) ==
  IF idx \in DOMAIN bank THEN bank ELSE bank @@ (idx :> NewOneEuroFilter(t, 0))

(* _get_filter, lines 910-914: the bank after the lookup *)
get_filter(bank, idx, t, val) ==
  IF idx \in DOMAIN bank THEN bank ELSE bank @@ (idx :> NewOneEuroFilter(t, val))

(* variant of lines 929-931 with one filter state behind all channels *)
smooth_channel_coupled(bank, idx, t, val) ==
  LET created == get_filter(bank, idx, t, val)
      called == filter_call(created[idx], t, val)
  IN [out |-> called.out, bank |-> [i \in DOMAIN created |-> called.filter],
      raised |-> called.raised]

(* lines 929-931 for one channel: look the filter up (creating it) and     *)
(* call it; the smoothed value, the bank afterwards and whether the call   *)
(* raised *)
smooth_channel(bank, idx, t, val) ==
  LET created == get_filter(bank, idx, t, val)
      called == filter_call(created[idx], t, val)
  IN [out |-> called.out, bank |-> [created EXCEPT ![idx] = called.filter],
      raised |-> called.raised]

(* A landmark is a dict with the keys 'x', 'y', 'z', here 1, 2, 3; a       *)
(* malformed one lacks a key.  lm.get(key) and lm.get(key, 0): *)
dict_get(lm, key) == IF key \in DOMAIN lm THEN lm[key] ELSE NoNumber
dict_get_or_0(lm, key) == IF key \in DOMAIN lm THEN lm[key] ELSE 0

(* the except branch, lines 933-940: one raw row per landmark is appended  *)
(* to smoothed, which still holds the rows appended before the failure     *)
raw_fallback(landmarks, smoothed) ==
  smoothed \o [k \in 1..Len(landmarks) |->
                <<dict_get_or_0(landmarks[k], 1), dict_get_or_0(landmarks[k], 2),
                  dict_get_or_0(landmarks[k], 3)>>]

(* smooth_landmarks, lines 916-942, the loop from landmark i (Python       *)
(* index) on; smoothed holds the rows appended so far.  A channel that     *)
(* raises ends the loop with the filters called so far already updated.    *)
RECURSIVE SmoothFrom(_, _, _, _, _)
SmoothFrom(landmarks, i, t, bank, smoothed) ==
  IF i >= Len(landmarks)
    THEN [coords |-> smoothed, bank |-> bank, fell_back |-> FALSE, failed_at |-> -1]
    ELSE LET lm == landmarks[i + 1]
             sx == smooth_channel(bank, i * 3 + 0, t, dict_get(lm, 1))
             sy == smooth_channel(sx.bank, i * 3 + 1, t, dict_get(lm, 2))
             sz == smooth_channel(sy.bank, i * 3 + 2, t, dict_get_or_0(lm, 3))
             failed(b) == [coords |-> raw_fallback(landmarks, smoothed), bank |-> b,
                           fell_back |-> TRUE, failed_at |-> i]
         IN IF sx.raised THEN failed(sx.bank)
            ELSE IF sy.raised THEN failed(sy.bank)
            ELSE IF sz.raised THEN failed(sz.bank)
            ELSE SmoothFrom(landmarks, i + 1, t, sz.bank,
                            Append(smoothed, <<sx.out, sy.out, sz.out>>))

smooth_landmarks(landmarks, t, bank) == SmoothFrom(landmarks, 0, t, bank, <<>>)

(* analyze_finger, lines 974-994 *)
total_bend(mcp, pip, dip, tip) ==
    calculate_angle(Sub(pip, mcp), Sub(dip, pip))
  + calculate_angle(Sub(dip, pip), Sub(tip, dip))

(* variant of the classification with the thresholds included *)
finger_state_inclusive(bend, d_tip_wrist_sq, d_mcp_wrist_sq) ==
  IF bend >= 1600 THEN "FOLDED"
  ELSE IF bend >= 900 \/ d_tip_wrist_sq < d_mcp_wrist_sq THEN "CURLED"
  ELSE "EXTENDED"

(* lines 988-992; the two wrist distances are compared by their squares *)
finger_state(bend, d_tip_wrist_sq, d_mcp_wrist_sq) ==
  IF bend > 1600 THEN "FOLDED"
  ELSE IF bend > 900 \/ d_tip_wrist_sq < d_mcp_wrist_sq THEN "CURLED"
  ELSE "EXTENDED"

analyze_finger(wrist, mcp, pip, dip, tip) ==
  finger_state(total_bend(mcp, pip, dip, tip),
               NormSq(Sub(tip, wrist)), NormSq(Sub(mcp, wrist)))

(* variant of the thumb classification that goes by the angle alone *)
thumb_classify_by_angle(angle, d_tip_pinky_sq) ==
  IF angle > 600 THEN "FOLDED" ELSE "EXTENDED"

(* variant of the thumb classification with a bent thumb reported Curled *)
thumb_classify_curled(angle, d_tip_pinky_sq) ==
  LET by_angle == IF angle > 600 THEN "CURLED" ELSE "EXTENDED"
  IN IF d_tip_pinky_sq < TOUCH_THRESHOLD * TOUCH_THRESHOLD THEN "FOLDED" ELSE by_angle

(* lines 1008-1017: the state by the angle, in tenths of a degree, then    *)
(* overwritten when the tip is within the touch distance of the pinky      *)
(* knuckle; the distance is compared by its square *)
thumb_classify(angle, d_tip_pinky_sq) ==
  LET by_angle == IF angle > 600 THEN "FOLDED" ELSE "EXTENDED"
  IN IF d_tip_pinky_sq < TOUCH_THRESHOLD * TOUCH_THRESHOLD THEN "FOLDED" ELSE by_angle

(* the thumb, lines 1001-1019 *)
thumb_state(coords) ==
  LET wrist == LM(coords, 0)
      thumb_mcp == LM(coords, 2)
      thumb_tip == LM(coords, 4)
      index_mcp == LM(coords, 5)
      pinky_mcp == LM(coords, 17)
      v_thumb_tip_mcp == Sub(thumb_tip, thumb_mcp)
      v_index_mcp_wrist == Sub(index_mcp, wrist)
  IN thumb_classify(calculate_angle(v_thumb_tip_mcp, v_index_mcp_wrist),
                    NormSq(Sub(thumb_tip, pinky_mcp)))

(* variant of the palm orientation: equal magnitudes go to z before y      *)
(* before x *)
palm_orientation_z_first(coords) ==
  LET v_w_i == Sub(LM(coords, 5), LM(coords, 0))
      v_w_p == Sub(LM(coords, 17), LM(coords, 0))
      palm_normal == normalize_vector(Cross(v_w_i, v_w_p))
      abs_x == Abs(palm_normal[1])
      abs_y == Abs(palm_normal[2])
      abs_z == Abs(palm_normal[3])
  IN IF abs_z >= abs_x /\ abs_z >= abs_y
       THEN (IF palm_normal[3] < 0 THEN "FORWARD" ELSE "BACKWARD")
     ELSE IF abs_y >= abs_x
       THEN (IF palm_normal[2] < 0 THEN "UP" ELSE "DOWN")
     ELSE (IF palm_normal[1] < 0 THEN "LEFT" ELSE "RIGHT")

(* palm orientation, lines 1021-1038 *)
palm_orientation(coords) ==
  LET v_w_i == Sub(LM(coords, 5), LM(coords, 0))
      v_w_p == Sub(LM(coords, 17), LM(coords, 0))
      palm_normal == normalize_vector(Cross(v_w_i, v_w_p))
      abs_x == Abs(palm_normal[1])
      abs_y == Abs(palm_normal[2])
      abs_z == Abs(palm_normal[3])
  IN IF abs_z > abs_x /\ abs_z > abs_y
       THEN (IF palm_normal[3] < 0 THEN "FORWARD" ELSE "BACKWARD")
     ELSE IF abs_y > abs_x
       THEN (IF palm_normal[2] < 0 THEN "UP" ELSE "DOWN")
     ELSE (IF palm_normal[1] < 0 THEN "LEFT" ELSE "RIGHT")

(* lines 957-1047: the HandState of a smoothed coordinate array; the      *)
(* angles are in tenths of a degree *)
hand_state_of(coords, t) ==
  LET finger(k) == analyze_finger(LM(coords, 0), LM(coords, k), LM(coords, k + 1),
                                  LM(coords, k + 2), LM(coords, k + 3))
      bend(k) == total_bend(LM(coords, k), LM(coords, k + 1), LM(coords, k + 2),
                            LM(coords, k + 3))
  IN [fingers |-> [f \in Finger |->
                     CASE f = "THUMB" -> thumb_state(coords)
                       [] f = "INDEX" -> finger(5)
                       [] f = "MIDDLE" -> finger(9)
                       [] f = "RING" -> finger(13)
                       [] f = "PINKY" -> finger(17)],
      finger_angles |-> [f \in Finger |->
                     CASE f = "THUMB" -> 0
                       [] f = "INDEX" -> bend(5)
                       [] f = "MIDDLE" -> bend(9)
                       [] f = "RING" -> bend(13)
                       [] f = "PINKY" -> bend(17)],
      palm_orientation |-> palm_orientation(coords),
      thumb_position |-> "UNKNOWN",
      raw_landmarks |-> coords,
      timestamp |-> t]

(* the rows of coords the feature extraction computes with: the wrist,    *)
(* the thumb MCP and tip, and the four joints of every other finger        *)
(* (lines 958-1025); rows 1 and 3 are unpacked and never read *)
RowsRead == {0, 2} \cup (4..20)

(* a None in a row that is read: the first subtraction on it raises *)
reads_none(coords) ==
  \E i \in RowsRead : \E k \in 1..3 : LM(coords, i)[k] = NoNumber

(* process, lines 944-1047: the Optional[HandState] (a tuple of at most    *)
(* one HandState), the filter bank afterwards, and whether the call        *)
(* raised: the feature extraction runs outside the try of lines 950-955 *)
process(raw_landmarks, t, bank) ==
  IF Len(raw_landmarks) < 21
    THEN [hand_state |-> <<>>, bank |-> bank, raised |-> FALSE]
    ELSE LET s == smooth_landmarks(raw_landmarks, t, bank)
         IN IF reads_none(s.coords)
              THEN [hand_state |-> <<>>, bank |-> s.bank, raised |-> TRUE]
              ELSE [hand_state |-> <<hand_state_of(s.coords, t)>>, bank |-> s.bank,
                    raised |-> FALSE]

(* predict, lines 1127-1148: what it returns for the Optional[HandState]   *)
(* the extractor produced *)
recognize(optional_hand) ==
  IF optional_hand = <<>>
    THEN [gesture |-> None, confidence |-> 0]
    ELSE match_hand(optional_hand[1])

(* predict, lines 1123-1148, with the filter bank afterwards; an          *)
(* exception of process passes through it *)
predict_from(p, r) ==
  IF p.raised
    THEN [gesture |-> None, confidence |-> 0, bank |-> p.bank, raised |-> TRUE]
    ELSE [gesture |-> r.gesture, confidence |-> r.confidence, bank |-> p.bank,
          raised |-> FALSE]

predict_after(p) == predict_from(p, recognize(p.hand_state))

predict(raw_landmarks, t, bank) == predict_after(process(raw_landmarks, t, bank))

----------------------------------------------------------------------------
(* Inputs: the landmark frames a client sends.  Coordinates are in         *)
(* hundredths; the hand lies in the plane y = 50 with the fingers along    *)
(* -z, so that the palm normal points along -y (Orientation.UP).           *)

(* index extended, middle, ring and pinky folded, thumb out *)
POSE_ONE ==
  << <<50, 50, 0>>,
     <<44, 50, -5>>, <<40, 50, -12>>, <<37, 50, -18>>, <<35, 50, -24>>,
     <<45, 50, -30>>, <<45, 50, -40>>, <<45, 50, -48>>, <<45, 50, -55>>,
     <<50, 50, -31>>, <<50, 50, -41>>, <<50, 58, -41>>, <<50, 58, -34>>,
     <<55, 50, -30>>, <<55, 50, -39>>, <<55, 57, -39>>, <<55, 57, -33>>,
     <<60, 50, -27>>, <<60, 50, -34>>, <<60, 56, -34>>, <<60, 56, -29>> >>

(* index and pinky extended, middle and ring half curled, thumb across    *)
(* the palm: no lexicon entry reaches the acceptance threshold             *)
POSE_NONE ==
  << <<50, 50, 0>>,
     <<44, 50, -5>>, <<40, 50, -12>>, <<46, 50, -13>>, <<52, 50, -14>>,
     <<45, 50, -30>>, <<45, 50, -40>>, <<45, 50, -48>>, <<45, 50, -55>>,
     <<50, 50, -31>>, <<50, 50, -41>>, <<50, 58, -41>>, <<50, 66, -44>>,
     <<55, 50, -30>>, <<55, 50, -39>>, <<55, 57, -39>>, <<55, 64, -42>>,
     <<60, 50, -27>>, <<60, 50, -34>>, <<60, 50, -40>>, <<60, 50, -45>> >>

(* The frames of the model, by name: the two poses, a frame one point    *)
(* short, a frame one point long and the empty list.                       *)
FrameNames == {"ONE", "NONE", "SHORT", "LONG", "EMPTY"}

(* landmark i (Python index) of a frame sent without the key *)
WithoutKey(landmarks, i, key) ==
  [k \in 1..Len(landmarks) |->
     IF k = i + 1
       THEN [c \in (1..3) \ {key} |-> landmarks[k][c]]
       ELSE landmarks[k]]

(* Malformed frames: the first pose with one coordinate missing, 'x' of    *)
(* the wrist, 'x' of the index knuckle, 'y' of the pinky tip or 'z' of the *)
(* index knuckle.                                                          *)
MalformedNames == {"NO_X_0", "NO_X_5", "NO_Y_20", "NO_Z_5"}

Frame(name) ==
  CASE name = "ONE" -> POSE_ONE
    [] name = "NONE" -> POSE_NONE
    [] name = "SHORT" -> SubSeq(POSE_ONE, 1, 20)
    [] name = "LONG" -> Append(POSE_ONE, <<60, 50, -20>>)
    [] name = "EMPTY" -> <<>>
    [] name = "NO_X_0" -> WithoutKey(POSE_ONE, 0, 1)
    [] name = "NO_X_5" -> WithoutKey(POSE_ONE, 5, 1)
    [] name = "NO_Y_20" -> WithoutKey(POSE_ONE, 20, 2)
    [] name = "NO_Z_5" -> WithoutKey(POSE_ONE, 5, 3)

----------------------------------------------------------------------------
(* A family of frames: every finger in one of three shapes, the thumb in   *)
(* one of five, the whole hand turned one of four ways.                    *)

Wrist == <<50, 50, 0>>

Knuckle(f) ==
  CASE f = "INDEX" -> <<45, 50, -30>>
    [] f = "MIDDLE" -> <<50, 50, -31>>
    [] f = "RING" -> <<55, 50, -30>>
    [] f = "PINKY" -> <<60, 50, -27>>

Add(a, b) == <<a[1] + b[1], a[2] + b[2], a[3] + b[3]>>

(* MCP, PIP, DIP and TIP of a finger in a shape *)
FingerPoints(f, shape) ==
  LET mcp == Knuckle(f)
  IN CASE shape = "EXTENDED" ->
            <<mcp, Add(mcp, <<0, 0, -10>>), Add(mcp, <<0, 0, -18>>), Add(mcp, <<0, 0, -25>>)>>
       [] shape = "CURLED" ->
            <<mcp, Add(mcp, <<0, 0, -10>>), Add(mcp, <<0, 8, -10>>), Add(mcp, <<0, 16, -13>>)>>
       [] shape = "FOLDED" ->
            <<mcp, Add(mcp, <<0, 0, -10>>), Add(mcp, <<0, 8, -10>>), Add(mcp, <<0, 8, -3>>)>>

ThumbShapes == {"OUT", "ACROSS", "ON_INDEX", "ON_MIDDLE", "ON_BOTH"}

(* CMC, MCP, IP and TIP of the thumb; the last three shapes put the tip    *)
(* on the tip of the index finger, of the middle finger, or between them   *)
ThumbPoints(shape, index_tip, middle_tip) ==
  CASE shape = "OUT" -> << <<44, 50, -5>>, <<40, 50, -12>>, <<37, 50, -18>>, <<35, 50, -24>> >>
    [] shape = "ACROSS" -> << <<44, 50, -5>>, <<40, 50, -12>>, <<46, 50, -13>>, <<52, 50, -14>> >>
    [] shape = "ON_INDEX" ->
         << <<44, 50, -5>>, <<40, 50, -12>>, <<41, 52, -20>>, Add(index_tip, <<-2, 1, 1>>) >>
    [] shape = "ON_MIDDLE" ->
         << <<44, 50, -5>>, <<40, 50, -12>>, <<41, 52, -20>>, Add(middle_tip, <<1, 1, 2>>) >>
    [] shape = "ON_BOTH" ->
         << <<44, 50, -5>>, <<40, 50, -12>>, <<41, 52, -20>>,
            <<(index_tip[1] + middle_tip[1]) \div 2, (index_tip[2] + middle_tip[2]) \div 2,
              (index_tip[3] + middle_tip[3]) \div 2>> >>

Turns == {"AS_IS", "MIRRORED", "TIPPED", "SIDEWAYS"}

(* the hand turned as a whole: mirrored left to right, tipped towards the  *)
(* camera, or laid on its side *)
Turn(turn, p) ==
  CASE turn = "AS_IS" -> p
    [] turn = "MIRRORED" -> <<100 - p[1], p[2], p[3]>>
    [] turn = "TIPPED" -> <<100 - p[1], 50 + p[3], p[2] - 50>>
    [] turn = "SIDEWAYS" -> <<p[2], p[1], p[3]>>

PoseShapes ==
  [index : FingerState, middle : FingerState, ring : FingerState, pinky : FingerState,
   thumb : ThumbShapes, turn : Turns]

Pose(s) ==
  LET index == FingerPoints("INDEX", s.index)
      middle == FingerPoints("MIDDLE", s.middle)
      flat == <<Wrist>> \o ThumbPoints(s.thumb, index[4], middle[4]) \o index \o middle
                \o FingerPoints("RING", s.ring) \o FingerPoints("PINKY", s.pinky)
  IN [i \in 1..21 |-> Turn(s.turn, flat[i])]
----------------------------------------------------------------------------
(* Bounds of the model *)

(* client ids in use *)
MaxClients == 2
(* WebSocket connections that may be open at once *)
MaxConnections == 2
(* the committed sentence is explored up to this length *)
MaxSentence == 3
(* clock steps of the server runs, of one frame interval each *)
MaxFrameTicks == 1
(* labels in a vote buffer up to which the server runs follow a session *)
MaxVotes == 2
(* clock steps of the SentenceBuilder runs, of half a cooldown each *)
MaxHalfCooldowns == 3

Clients == 1..MaxClients
WebSockets == 1..MaxConnections

(* time.time() at start-up: any value far above the configured intervals *)
Epoch == 10 * WORD_COOLDOWN
FrameInterval == WORD_COOLDOWN \div 10
HalfCooldown == WORD_COOLDOWN \div 2

----------------------------------------------------------------------------
(* State *)

VARIABLES
  now,                    \* the value time.time() returns
  builders,               \* the SentenceBuilder objects created so far
  sessions,               \* sessions: client_id -> index in builders
  session_last_activity,  \* session_last_activity: client_id -> time
  filters,                \* recognizer.extractor.filters: channel -> filter
  active_connections,     \* manager.active_connections
  handlers,               \* running endpoint coroutines: websocket ->
                          \*   [client_id, sentence_builder]
  reply,                  \* the messages the last step sent
  hand,                   \* the Optional[HandState] under the matcher
  scored,                 \* what the matcher returned for it
  feed,                   \* the frames a scripted client sends, and how
                          \*   many of them it has sent
  op                      \* the last operation and its arguments

vars == <<now, builders, sessions, session_last_activity, filters,
          active_connections, handlers, reply, hand, scored, feed, op>>

server_vars == <<builders, sessions, session_last_activity, filters,
                 active_connections, handlers, reply>>
matcher_vars == <<hand, scored>>

Op(name, ws, arg) == [name |-> name, ws |-> ws, arg |-> arg]

(* round(confidence, 2), line 1291, in hundredths *)
round2(confidence) == (confidence * 100 + Scale \div 2) \div Scale

----------------------------------------------------------------------------
(* The WebSocket endpoint, lines 1253-1360.  Between two awaits a handler  *)
(* runs without interleaving, so each message is one step.                 *)

(* lines 1255-1263: accept, register the session, take its builder.       *)
(* Connections are interchangeable: a new one takes the lowest free number *)
Connect(ws, client_id) ==
  /\ ws \notin DOMAIN handlers
  /\ \A w \in WebSockets : w < ws => w \in DOMAIN handlers
  /\ active_connections' = Append(active_connections, ws)
  /\ IF client_id \notin DOMAIN sessions
       THEN /\ builders' = Append(builders, NewSentenceBuilder)
            /\ sessions' = sessions @@ (client_id :> Len(builders) + 1)
       ELSE UNCHANGED <<builders, sessions>>
  /\ handlers' = handlers @@
       (ws :> [client_id |-> client_id, sentence_builder |-> sessions'[client_id]])
  /\ session_last_activity' =
       [c \in DOMAIN session_last_activity \cup {client_id} |->
          IF c = client_id THEN now ELSE session_last_activity[c]]
  /\ reply' = <<>>
  /\ op' = Op("connect", ws, client_id)
  /\ UNCHANGED <<now, filters, hand, scored, feed>>

(* line 1268 *)
Touch(client_id) ==
  [c \in DOMAIN session_last_activity \cup {client_id} |->
     IF c = client_id THEN now ELSE session_last_activity[c]]

(* variant of the landmarks branch that reads the sentence for the reply   *)
(* before the vote *)
HandleLandmarks_stale_sentence(ws, name, landmarks) ==
  /\ ws \in DOMAIN handlers
  /\ LET h == handlers[ws]
     IN /\ session_last_activity' = Touch(h.client_id)
        /\ IF landmarks = <<>>
             THEN /\ reply' = <<>>
                  /\ UNCHANGED <<builders, filters>>
             ELSE \E p \in {predict(landmarks, now, filters)} :
                    \E sb \in {IF p.gesture # None
                                 THEN add_prediction(builders[h.sentence_builder],
                                                     p.gesture, now)
                                 ELSE builders[h.sentence_builder]} :
                      /\ filters' = p.bank
                      /\ builders' = [builders EXCEPT ![h.sentence_builder] = sb]
                      /\ reply' = IF p.raised
                                    THEN << [type |-> "error", ws |-> ws] >>
                                    ELSE << [type |-> "prediction",
                                             ws |-> ws,
                                             gesture |-> p.gesture,
                                             confidence |-> round2(p.confidence),
                                             sentence |-> get_sentence(builders[h.sentence_builder])] >>
  /\ op' = Op("landmarks", ws, name)
  /\ UNCHANGED <<now, sessions, active_connections, handlers, hand, scored>>

(* lines 1267-1295: a "landmarks" message with the frame landmarks, read by *)
(* the handler of ws; an exception of predict is answered with an "error"  *)
(* message (lines 1351-1356) and leaves the builder alone                  *)
HandleLandmarks(ws, name, landmarks) ==
  /\ ws \in DOMAIN handlers
  /\ LET h == handlers[ws]
     IN /\ session_last_activity' = Touch(h.client_id)
        /\ IF landmarks = <<>>
             THEN /\ reply' = <<>>
                  /\ UNCHANGED <<builders, filters>>
             ELSE \E p \in {predict(landmarks, now, filters)} :
                    \E sb \in {IF p.gesture # None
                                 THEN add_prediction(builders[h.sentence_builder],
                                                     p.gesture, now)
                                 ELSE builders[h.sentence_builder]} :
                      /\ filters' = p.bank
                      /\ builders' = [builders EXCEPT ![h.sentence_builder] = sb]
                      /\ reply' = IF p.raised
                                    THEN << [type |-> "error", ws |-> ws] >>
                                    ELSE << [type |-> "prediction",
                                             ws |-> ws,
                                             gesture |-> p.gesture,
                                             confidence |-> round2(p.confidence),
                                             sentence |-> get_sentence(sb)] >>
  /\ op' = Op("landmarks", ws, name)
  /\ UNCHANGED <<now, sessions, active_connections, handlers, hand, scored>>

(* a frame of the model arrives on ws; a session is explored while its     *)
(* vote buffer holds fewer than MaxVotes labels *)
Landmarks(ws, name) ==
  /\ ws \in DOMAIN handlers
  /\ Len(builders[handlers[ws].sentence_builder].frame_buffer) < MaxVotes
  /\ HandleLandmarks(ws, name, Frame(name))
  /\ UNCHANGED feed

(* lines 1297-1304: a "clear" message *)
ClearCommand(ws) ==
  /\ ws \in DOMAIN handlers
  /\ LET h == handlers[ws]
     IN /\ session_last_activity' = Touch(h.client_id)
        /\ builders' = [builders EXCEPT ![h.sentence_builder] = clear(@)]
        /\ reply' = << [type |-> "cleared", ws |-> ws] >>
  /\ op' = Op("clear", ws, "")
  /\ UNCHANGED <<now, sessions, filters, active_connections, handlers, hand, scored, feed>>

(* the clock moves on by d, up to limit past the start *)
Tick(d, limit) ==
  /\ now + d <= Epoch + limit
  /\ now' = now + d
  /\ op' = Op("tick", 0, "")
  /\ UNCHANGED <<server_vars, matcher_vars, feed>>

EmptyMap == [x \in {} |-> 0]
NoFeed == [frames |-> <<>>, fed |-> 0]

ServerInit ==
  /\ now = Epoch
  /\ builders = <<>>
  /\ sessions = EmptyMap
  /\ session_last_activity = EmptyMap
  /\ filters = EmptyMap
  /\ active_connections = <<>>
  /\ handlers = EmptyMap
  /\ reply = <<>>
  /\ hand = <<>>
  /\ scored = [gesture |-> None, confidence |-> 0]
  /\ feed = NoFeed
  /\ op = Op("init", 0, "")

Init == ServerInit

Next ==
  \/ \E ws \in WebSockets, c \in Clients : Connect(ws, c)
  \/ \E ws \in WebSockets, name \in FrameNames : Landmarks(ws, name)
  \/ \E ws \in WebSockets : ClearCommand(ws)
  \/ Tick(FrameInterval, MaxFrameTicks * FrameInterval)

Spec == Init /\ [][Next]_vars

----------------------------------------------------------------------------
(* The stabilizer of one session: the session's SentenceBuilder is fed     *)
(* labels directly, in place of the recognizer's results, and cleared by   *)
(* the "clear" command, while the clock moves in steps of half a cooldown. *)

Labels == {"A", "B", "C"}
TwoLabels == {"A", "B"}

(* sentence_builder.add_prediction(label, confidence) at time now *)
AddPrediction(label) ==
  /\ builders' = [builders EXCEPT ![1] = add_prediction(@, label, now)]
  /\ op' = Op("add_prediction", 0, label)
  /\ UNCHANGED <<now, sessions, session_last_activity, filters,
                 active_connections, handlers, reply, hand, scored, feed>>

InitSB == ServerInit

NextSB ==
  \/ Connect(1, 1)
  \/ \E label \in TwoLabels :
       /\ 1 \in DOMAIN handlers
       /\ Len(builders[1].current_sentence) < MaxSentence
       /\ AddPrediction(label)
  \/ ClearCommand(1)
  \/ Tick(HalfCooldown, MaxHalfCooldowns * HalfCooldown)

SpecSB == InitSB /\ [][NextSB]_vars
----------------------------------------------------------------------------
(* One add_prediction call on every builder the program can hold: a vote   *)
(* buffer shorter than its capacity, or a full one that reached no         *)
(* majority when its last label came in.                                   *)

HeldBuffers ==
  UNION {[1..n -> Labels] : n \in 0..(BUFFER_SIZE - 1)}
    \cup {b \in [1..BUFFER_SIZE -> Labels] :
            \A l \in Labels : Count(b, l) * 100 <= BUFFER_SIZE * MAJORITY_THRESHOLD_PCT}

InitVote ==
  /\ now \in {Epoch, Epoch + WORD_COOLDOWN}
  /\ \E b \in HeldBuffers, s \in {<<>>, <<"A">>} :
       builders = << [current_sentence |-> s,
                      frame_buffer |-> b,
                      last_word_time |-> IF s = <<>> THEN 0 ELSE Epoch] >>
  /\ sessions = EmptyMap
  /\ session_last_activity = EmptyMap
  /\ filters = EmptyMap
  /\ active_connections = <<>>
  /\ handlers = EmptyMap
  /\ reply = <<>>
  /\ hand = <<>>
  /\ scored = [gesture |-> None, confidence |-> 0]
  /\ feed = NoFeed
  /\ op = Op("init", 0, "")

Vote(label) ==
  /\ op.name = "init"
  /\ AddPrediction(label)

NextVote == \E label \in Labels : Vote(label)

SpecVote == InitVote /\ [][NextVote]_vars

----------------------------------------------------------------------------
(* Properties of SentenceBuilder *)

Occurrences(buffer, l) == Len(SelectSeq(buffer, LAMBDA x : x = l))

(* C1: add_prediction with a non-empty label appends the label to the vote *)
(* buffer, which keeps its newest 8 labels.  The vote is taken only when   *)
(* the buffer then holds 8 labels: if some label occurs at least 6 times   *)
(* that label is handed to _commit_word and the buffer is emptied, and in  *)
(* every other case (fewer than 8 labels, or at most 5 occurrences of the  *)
(* most frequent label) the buffer keeps the labels and neither the        *)
(* sentence nor the last-commit time changes.                              *)
C1_MajorityVote ==
  [][op'.name = "add_prediction" =>
       LET sb == builders[1]
           after == builders'[1]
           appended == Append(sb.frame_buffer, op'.arg)
           held == IF Len(appended) > BUFFER_SIZE THEN Tail(appended) ELSE appended
           majority == {l \in Labels : Occurrences(held, l) >= 6}
       IN IF Len(held) = BUFFER_SIZE /\ majority # {}
            THEN /\ after.frame_buffer = <<>>
                 /\ \E l \in majority :
                      LET committed == commit_word(sb, l, now)
                      IN /\ after.current_sentence = committed.current_sentence
                         /\ after.last_word_time = committed.last_word_time
            ELSE /\ after.frame_buffer = held
                 /\ after.current_sentence = sb.current_sentence
                 /\ after.last_word_time = sb.last_word_time]_vars

(* a vote of 6 "A" against "B" and "C" has just committed "A" *)
C1_Witness ==
  /\ op = Op("add_prediction", 0, "A")
  /\ builders[1].frame_buffer = <<>>
  /\ builders[1].current_sentence = <<"A">>
  /\ builders[1].last_word_time = now

(* C2: when add_prediction commits token w, the commit is dropped (the     *)
(* sentence and the last-commit time stay as they are) if the sentence is  *)
(* non-empty, its last token is w and less than the cooldown of 0.5 s has  *)
(* passed since the last successful commit; in every other case w is       *)
(* appended to the sentence and the last-commit time becomes the current   *)
(* time, so a token that differs from the last one is never dropped.       *)
C2_Cooldown ==
  [][(op'.name = "add_prediction" /\ builders'[1].frame_buffer = <<>>) =>
       LET sb == builders[1]
           after == builders'[1]
           w == most_common(deque_append(sb.frame_buffer, op'.arg))
           n == Len(sb.current_sentence)
           dropped == /\ n > 0
                      /\ sb.current_sentence[n] = w
                      /\ now - sb.last_word_time < WORD_COOLDOWN
       IN IF dropped
            THEN /\ after.current_sentence = sb.current_sentence
                 /\ after.last_word_time = sb.last_word_time
            ELSE /\ after.current_sentence = Append(sb.current_sentence, w)
                 /\ after.last_word_time = now]_vars

(* "B" and "A" were committed, "A" half a cooldown ago, and a further     *)
(* commit of "A" has just been dropped *)
C2_Witness ==
  /\ op = Op("add_prediction", 0, "A")
  /\ builders[1].frame_buffer = <<>>
  /\ builders[1].current_sentence = <<"B", "A">>
  /\ builders[1].last_word_time + HalfCooldown = now

(* C8: the "clear" command calls clear() on the session's builder: after  *)
(* it the sentence is empty, get_sentence() returns the empty string and   *)
(* the vote buffer is empty, whatever the builder held, and the client is  *)
(* answered "cleared".                                                     *)
C8_Clear ==
  [][op'.name = "clear" =>
       LET sb == builders'[handlers[op'.ws].sentence_builder]
       IN /\ sb.current_sentence = <<>>
          /\ get_sentence(sb) = ""
          /\ sb.frame_buffer = <<>>
          /\ reply' = << [type |-> "cleared", ws |-> op'.ws] >>]_vars

(* a builder that had committed has just been cleared *)
C8_Witness ==
  /\ op.name = "clear"
  /\ builders[1].last_word_time >= Epoch
  /\ builders[1].current_sentence = <<>>
  /\ builders[1].frame_buffer = <<>>

(* C9: a step changes the sentence of a session in two ways only:          *)
(* add_prediction appends exactly one token at the end, the tokens before  *)
(* it unchanged, and the clear command empties it.                         *)
C9_SentenceGrowth ==
  [][builders # <<>> =>
     LET s == builders[1].current_sentence
         s2 == builders'[1].current_sentence
     IN \/ s2 = s
        \/ /\ op'.name = "add_prediction"
           /\ Len(s2) = Len(s) + 1
           /\ SubSeq(s2, 1, Len(s)) = s
        \/ /\ op'.name = "clear"
           /\ s2 = <<>>]_vars

(* a third token has just been appended to two earlier ones *)
C9_Witness ==
  /\ op.name = "add_prediction"
  /\ builders[1].frame_buffer = <<>>
  /\ Len(builders[1].current_sentence) = 3
  /\ builders[1].last_word_time = now
----------------------------------------------------------------------------
(* The matcher on its own: predict and _calculate_match_score applied to   *)
(* the HandState a fresh extractor produces for each frame of the family,  *)
(* and to the rejected frame.                                              *)

(* the lexicon entries and two definitions without checks *)
SignDefinitions ==
  {get_definitions[i] : i \in DOMAIN get_definitions}
    \cup {[name |-> "NO_KEYS"], [name |-> "NO_FINGERS", fingers |-> EmptyMap]}

Definition(name) == CHOOSE d \in SignDefinitions : d.name = name

InitMatch ==
  /\ now = Epoch
  /\ builders = <<>>
  /\ sessions = EmptyMap
  /\ session_last_activity = EmptyMap
  /\ filters = EmptyMap
  /\ active_connections = <<>>
  /\ handlers = EmptyMap
  /\ reply = <<>>
  /\ hand \in {process(Pose(s), Epoch, EmptyMap).hand_state : s \in PoseShapes}
                \cup {process(Frame("SHORT"), Epoch, EmptyMap).hand_state}
  /\ scored = [gesture |-> None, confidence |-> 0]
  /\ feed = NoFeed
  /\ op = Op("init", 0, "")

(* lines 1127-1148 of predict on the extractor's result *)
PredictHand ==
  /\ op.name = "init"
  /\ scored' = recognize(hand)
  /\ op' = Op("predict", 0, "")
  /\ UNCHANGED <<now, server_vars, hand, feed>>

(* one call of _calculate_match_score *)
ScoreSign(sign_def) ==
  /\ op.name = "init"
  /\ hand # <<>>
  /\ scored' = [gesture |-> sign_def.name,
                confidence |-> calculate_match_score(hand[1], sign_def)]
  /\ op' = Op("score", 0, sign_def.name)
  /\ UNCHANGED <<now, server_vars, hand, feed>>

NextMatch ==
  \/ PredictHand
  \/ \E sign_def \in SignDefinitions : ScoreSign(sign_def)

SpecMatch == InitMatch /\ [][NextMatch]_vars
----------------------------------------------------------------------------
(* One session fed by a scripted client: a frame repeated BUFFER_SIZE      *)
(* times with one other frame put in at some place, while the clock may    *)
(* move on by a frame interval.                                            *)

FeedLength == BUFFER_SIZE + 1

Feeds ==
  {[frames |-> [i \in 1..FeedLength |-> IF i = k + 1 THEN y ELSE x], fed |-> 0] :
     x \in FrameNames, y \in FrameNames, k \in 0..BUFFER_SIZE}

InitFeed ==
  /\ now = Epoch
  /\ builders = <<>>
  /\ sessions = EmptyMap
  /\ session_last_activity = EmptyMap
  /\ filters = EmptyMap
  /\ active_connections = <<>>
  /\ handlers = EmptyMap
  /\ reply = <<>>
  /\ hand = <<>>
  /\ scored = [gesture |-> None, confidence |-> 0]
  /\ feed \in Feeds
  /\ op = Op("init", 0, "")

(* the client sends its next frame *)
Deliver ==
  /\ feed.fed < Len(feed.frames)
  /\ HandleLandmarks(1, feed.frames[feed.fed + 1], Frame(feed.frames[feed.fed + 1]))
  /\ feed' = [feed EXCEPT !.fed = @ + 1]

NextFeed ==
  \/ Connect(1, 1)
  \/ Deliver
  \/ Tick(FrameInterval, MaxFrameTicks * FrameInterval)

SpecFeed == InitFeed /\ [][NextFeed]_vars
----------------------------------------------------------------------------
(* Properties of the matcher *)

(* C6: predict returns (None, 0) for a frame the extractor rejected.       *)
(* Otherwise the label is decided by the entry with the highest score,     *)
(* the first declared one among entries with that score: predict returns   *)
(* that entry's name with its score when the score is at least 0.75, and   *)
(* None with that score when it is lower.                                  *)
C6_Predict ==
  op.name = "predict" =>
    IF hand = <<>>
      THEN scored = [gesture |-> None, confidence |-> 0]
      ELSE LET score == [i \in DOMAIN get_definitions |->
                           calculate_match_score(hand[1], get_definitions[i])]
               best == CHOOSE i \in DOMAIN score :
                         /\ \A j \in DOMAIN score : score[j] <= score[i]
                         /\ \A j \in 1..(i - 1) : score[j] < score[i]
           IN /\ scored.confidence = score[best]
              /\ scored.gesture = IF score[best] * 100 >= 75 * Scale
                                    THEN get_definitions[best].name
                                    ELSE None

(* a best score of exactly 0.75 was accepted *)
C6_Witness ==
  /\ op.name = "predict"
  /\ scored.gesture # None
  /\ scored.confidence * 100 = 75 * Scale

Indicator(b) == IF b THEN 1 ELSE 0

(* C7: _calculate_match_score returns hits / total, where total counts one *)
(* check for each finger the definition lists, one for an orientation set  *)
(* and one for a special predicate, and hits counts those of them that     *)
(* are satisfied, a finger check only when the observed state is in the    *)
(* required set.  The result lies in [0, 1] and is 0 when the definition   *)
(* has no checks.                                                          *)
C7_MatchScore ==
  op.name = "score" =>
    LET d == Definition(op.arg)
        hs == hand[1]
        listed(f) == "fingers" \in DOMAIN d /\ f \in DOMAIN d.fingers
        has_orientation == "orientation" \in DOMAIN d
        has_special == "special" \in DOMAIN d
        total == Indicator(listed("THUMB")) + Indicator(listed("INDEX"))
                   + Indicator(listed("MIDDLE")) + Indicator(listed("RING"))
                   + Indicator(listed("PINKY"))
                   + Indicator(has_orientation) + Indicator(has_special)
        met(f) == listed(f) /\ hs.fingers[f] \in d.fingers[f]
        hits == Indicator(met("THUMB")) + Indicator(met("INDEX"))
                  + Indicator(met("MIDDLE")) + Indicator(met("RING"))
                  + Indicator(met("PINKY"))
                  + Indicator(has_orientation /\ hs.palm_orientation \in d.orientation)
                  + Indicator(has_special /\ SpecialPassed(d.special, hs.raw_landmarks))
    IN /\ scored.confidence >= 0
       /\ scored.confidence <= Scale
       /\ total = 0 => scored.confidence = 0
       /\ total > 0 => scored.confidence * total = hits * Scale

(* a CURLED index finger against a definition that requires EXTENDED:      *)
(* the other three checks of "1" are met and the score is 3/4 *)
C7_Witness ==
  /\ op = Op("score", 0, "1")
  /\ hand[1].fingers["INDEX"] = "CURLED"
  /\ scored.confidence * 4 = 3 * Scale
----------------------------------------------------------------------------
(* Properties of the frame pipeline *)

OnlyOnes == \A i \in 1..feed.fed : feed.frames[i] = "ONE"

C10_NoMatch ==
  [][(op'.name = "landmarks" /\ reply' # <<>> /\ reply'[1].gesture = None) =>
       \E pr \in {process(Frame(op'.arg), now, filters)} :
         \E best \in {IF pr.hand_state = <<>> THEN 0
                      ELSE ScanLexicon(pr.hand_state[1], 1, None, 0)[2]} :
           /\ builders' = builders
           /\ best * 100 < 75 * Scale
           /\ reply'[1].confidence = round2(best)
           /\ reply'[1].sentence = get_sentence(builders[handlers[op'.ws].sentence_builder])
           /\ \A i \in DOMAIN builders :
                add_prediction(builders[i], None, now) = builders[i]]_vars

(* a no-match frame between accepted labels: three labels stay buffered    *)
(* and the answer carries a best score above 0 *)
C10_Witness ==
  /\ op.name = "landmarks"
  /\ op.arg = "NONE"
  /\ reply # <<>>
  /\ reply[1].gesture = None
  /\ reply[1].confidence > 0
  /\ builders[1].frame_buffer = <<"1", "1", "1">>

(* C4 as stated: a frame whose number of points is not 21 is answered, if  *)
(* at all, with no label and confidence 0, and creates or updates no       *)
(* filter and changes no builder.                                          *)
C4_WrongCount ==
  [][(op'.name = "landmarks" /\ Len(Frame(op'.arg)) # 21) =>
       /\ filters' = filters
       /\ builders' = builders
       /\ reply' # <<>> => (reply'[1].gesture = None /\ reply'[1].confidence = 0)]_vars

OtherSessions(ws) ==
  {w \in DOMAIN handlers : handlers[w].client_id # handlers[ws].client_id}

(* C3 as stated, as an unwinding condition: a frame handled for one        *)
(* session changes neither the builder of a session with another id nor    *)
(* the label and confidence that session would get for its next frame,    *)
(* sent now or one frame interval later.                                   *)
C3_Isolation ==
  [][(op'.name = "landmarks" /\ OtherSessions(op'.ws) # {}) =>
       /\ \A w \in OtherSessions(op'.ws) :
            builders'[handlers[w].sentence_builder] = builders[handlers[w].sentence_builder]
       /\ \A name \in FrameNames, d \in {0, FrameInterval} :
            \E before \in {predict(Frame(name), now + d, filters)} :
              \E after \in {predict(Frame(name), now + d, filters')} :
                /\ before.gesture = after.gesture
                /\ before.confidence = after.confidence]_vars
----------------------------------------------------------------------------
(* The extractor on its own: recognizer.extractor.process applied to well  *)
(* formed and malformed frames, on a bank that is fresh or has seen frames *)
(* before.                                                                 *)

(* frames the extractor runs process up to *)
MaxProcessed == 3

ExtractorFrames == {"ONE", "NONE"} \cup MalformedNames

(* extractor.process(frame) at time now; an exception leaves no HandState *)
Process(name) ==
  /\ feed.fed < MaxProcessed
  /\ \E p \in {process(Frame(name), now, filters)} :
       /\ hand' = p.hand_state
       /\ filters' = p.bank
       /\ reply' = IF p.raised THEN << [type |-> "raised"] >> ELSE <<>>
  /\ feed' = [feed EXCEPT !.fed = @ + 1]
  /\ op' = Op("process", 0, name)
  /\ UNCHANGED <<now, builders, sessions, session_last_activity,
                 active_connections, handlers, scored>>

InitSmooth == ServerInit

NextSmooth ==
  \/ \E name \in ExtractorFrames : Process(name)
  \/ Tick(FrameInterval, MaxFrameTicks * FrameInterval)

SpecSmooth == InitSmooth /\ [][NextSmooth]_vars

(* the raw (x, y, z) of a landmark, a missing coordinate read as 0 *)
RawRow(lm) == <<dict_get_or_0(lm, 1), dict_get_or_0(lm, 2), dict_get_or_0(lm, 3)>>

(* C11: when smoothing raises at some landmark of a frame of at least 21   *)
(* points, process still produces a HandState, and the coordinate row it   *)
(* uses for landmark i is the raw (x, y, z) of landmark i, for every i in  *)
(* 0..20.                                                                  *)
C11_RawFallback ==
  [][(/\ op'.name = "process"
      /\ Len(Frame(op'.arg)) >= 21
      /\ smooth_landmarks(Frame(op'.arg), now, filters).fell_back)
     => /\ hand' # <<>>
        /\ \A i \in 0..20 :
             LM(hand'[1].raw_landmarks, i) = RawRow(LM(Frame(op'.arg), i))]_vars

(* C11, where it holds: a failure at the first landmark leaves nothing in  *)
(* smoothed, and the rows are the raw landmarks in their places *)
C11_FirstLandmark ==
  [][(/\ op'.name = "process"
      /\ Len(Frame(op'.arg)) >= 21
      /\ smooth_landmarks(Frame(op'.arg), now, filters).failed_at = 0)
     => /\ hand' # <<>>
        /\ \A i \in 0..20 :
             LM(hand'[1].raw_landmarks, i) = RawRow(LM(Frame(op'.arg), i))]_vars
----------------------------------------------------------------------------
(* Sentence refinement: the "refine_sentence" message, lines 1306-1347 of  *)
(* main.py, and LLMRefiner of llm_integration.py.  A text is the sequence  *)
(* of its characters.                                                      *)

UpperCase == <<"A", "B", "C", "D", "E", "F", "G", "H", "I", "J", "K", "L", "M", "N", "O", "P", "Q", "R", "S", "T", "U", "V", "W", "X", "Y", "Z">>
LowerCase == <<"a", "b", "c", "d", "e", "f", "g", "h", "i", "j", "k", "l", "m", "n", "o", "p", "q", "r", "s", "t", "u", "v", "w", "x", "y", "z">>

(* str.upper() and str.lower() of one character *)
char_upper(c) ==
  IF \E i \in DOMAIN LowerCase : LowerCase[i] = c
    THEN UpperCase[CHOOSE i \in DOMAIN LowerCase : LowerCase[i] = c]
    ELSE c
char_lower(c) ==
  IF \E i \in DOMAIN UpperCase : UpperCase[i] = c
    THEN LowerCase[CHOOSE i \in DOMAIN UpperCase : UpperCase[i] = c]
    ELSE c

str_lower(text) == [i \in 1..Len(text) |-> char_lower(text[i])]

(* str.capitalize(): the first character in upper case, the rest in lower *)
str_capitalize(text) ==
  [i \in 1..Len(text) |-> IF i = 1 THEN char_upper(text[i]) ELSE char_lower(text[i])]

(* str.replace(old, new): every occurrence, from the left, not overlapping *)
RECURSIVE str_replace(_, _, _)
str_replace(text, old, new) ==
  IF Len(text) < Len(old) THEN text
  ELSE IF SubSeq(text, 1, Len(old)) = old
    THEN new \o str_replace(SubSeq(text, Len(old) + 1, Len(text)), old, new)
    ELSE <<text[1]>> \o str_replace(Tail(text), old, new)

(* The labels a refined sentence is made of in this model, all of them     *)
(* labels the recognizer returns, and their characters.                    *)
RefineWords == {"1", "GO", "YES", "I LOVE YOU"}

Chars(label) ==
  CASE label = "1" -> <<"1">>
    [] label = "GO" -> <<"G", "O">>
    [] label = "YES" -> <<"Y", "E", "S">>
    [] label = "I LOVE YOU" -> <<"I", " ", "L", "O", "V", "E", " ", "Y", "O", "U">>

(* " ".join(words) *)
RECURSIVE str_join(_)
str_join(words) ==
  IF words = <<>> THEN <<>>
  ELSE IF Len(words) = 1 THEN Chars(words[1])
  ELSE Chars(words[1]) \o <<" ">> \o str_join(Tail(words))

(* the replacements of _basic_refinement, lines 218-224, in their order *)
replacements ==
  << <<<<" ", "m", "e", " ">>, <<" ", "I", " ">>>>,
     <<<<"m", "e", " ", "g", "o">>, <<"I", " ", "g", "o">>>>,
     <<<<"m", "e", " ", "w", "a", "n", "t">>, <<"I", " ", "w", "a", "n", "t">>>>,
     <<<<"m", "e", " ", "n", "e", "e", "d">>, <<"I", " ", "n", "e", "e", "d">>>>,
     <<<<"y", "o", "u", " ", "m", "e">>, <<"y", "o", "u", " ", "a", "n", "d", " ", "I">>>> >>

RECURSIVE apply_replacements(_, _)
apply_replacements(text, k) ==
  IF k > Len(replacements) THEN text
  ELSE apply_replacements(str_replace(text, replacements[k][1], replacements[k][2]), k + 1)

TerminalPunctuation == {".", "!", "?"}

(* the same without the final period *)
basic_refinement_no_period(text) ==
  IF text = <<>> THEN <<>>
  ELSE LET refined == apply_replacements(str_lower(text), 1)
       IN IF refined # <<>> THEN <<char_upper(refined[1])>> \o Tail(refined) ELSE <<>>

(* LLMRefiner._basic_refinement, llm_integration.py lines 206-236 *)
basic_refinement(text) ==
  IF text = <<>> THEN <<>>
  ELSE LET refined == apply_replacements(str_lower(text), 1)
           capital == IF refined # <<>> THEN <<char_upper(refined[1])>> \o Tail(refined)
                      ELSE <<>>
       IN IF capital # <<>> /\ capital[Len(capital)] \notin TerminalPunctuation
            THEN Append(capital, ".")
            ELSE capital

(* the fallback of the handler, lines 1338-1341 *)
handler_fallback(words) ==
  LET refined == str_capitalize(str_join(words))
  IN IF refined = <<>> \/ refined[Len(refined)] # "." THEN Append(refined, ".") ELSE refined

(* What can happen inside the try block of the handler: the import of      *)
(* llm_integration fails; the provider fails to initialise and the refiner *)
(* falls to LLMProvider.NONE; the call of the provider raises; or the      *)
(* provider answers.                                                       *)
FailureOutcomes == {"import_fails", "init_fails", "call_raises"}
Outcomes == FailureOutcomes \cup {"answers"}

(* the sentences a provider answers with, stripped *)
ProviderTexts == { <<"O", "k", ".">> }

(* LLMRefiner(provider).refine(words), lines 24-27 and 91-119 *)
refine(words, outcome, answer) ==
  IF words = <<>> THEN <<>>
  ELSE IF outcome = "answers" THEN answer
  ELSE basic_refinement(str_join(words))

(* lines 1306-1347: a "refine_sentence" message *)
RefineSentence(ws, outcome, answer) ==
  /\ ws \in DOMAIN handlers
  /\ LET h == handlers[ws]
         words == builders[h.sentence_builder].current_sentence
     IN /\ session_last_activity' = Touch(h.client_id)
        /\ reply' =
             IF words = <<>> THEN <<>>
             ELSE << [type |-> "refined_sentence",
                      ws |-> ws,
                      original |-> str_join(words),
                      refined |-> IF outcome = "import_fails"
                                    THEN handler_fallback(words)
                                    ELSE refine(words, outcome, answer)] >>
  /\ op' = Op("refine_sentence", ws, outcome)
  /\ UNCHANGED <<now, builders, sessions, filters, active_connections, handlers,
                 hand, scored, feed>>

(* A session that has committed the words of a sentence, one cooldown      *)
(* apart, the last of them just now.                                       *)
RECURSIVE SentencesUpTo(_)
SentencesUpTo(n) ==
  IF n = 0 THEN { <<>> }
  ELSE SentencesUpTo(n - 1)
         \cup {Append(s, w) : s \in {t \in SentencesUpTo(n - 1) : Len(t) = n - 1},
                              w \in RefineWords}

InitRefine ==
  /\ now = Epoch + MaxSentence * WORD_COOLDOWN
  /\ \E s \in SentencesUpTo(MaxSentence) :
       builders = << [current_sentence |-> s,
                      frame_buffer |-> <<>>,
                      last_word_time |-> IF s = <<>> THEN 0 ELSE now] >>
  /\ sessions = (1 :> 1)
  /\ session_last_activity = (1 :> now)
  /\ filters = EmptyMap
  /\ active_connections = <<1>>
  /\ handlers = (1 :> [client_id |-> 1, sentence_builder |-> 1])
  /\ reply = <<>>
  /\ hand = <<>>
  /\ scored = [gesture |-> None, confidence |-> 0]
  /\ feed = NoFeed
  /\ op = Op("init", 0, "")

NextRefine ==
  \/ \E outcome \in Outcomes, answer \in ProviderTexts : RefineSentence(1, outcome, answer)
  \/ ClearCommand(1)

SpecRefine == InitRefine /\ [][NextRefine]_vars

(* C12: when the provider is absent, fails to initialise or raises, a      *)
(* refine_sentence message on a non-empty sentence is answered with one    *)
(* refined_sentence message, never an error, that carries the space-joined *)
(* words with the first letter in upper case and a terminal punctuation    *)
(* mark (the letter case of the rest aside); the sentence of the session   *)
(* is left as it was.                                                      *)
C12_RefineFallback ==
  [][(/\ op'.name = "refine_sentence"
      /\ op'.arg \in FailureOutcomes
      /\ builders[1].current_sentence # <<>>)
     => LET raw == str_join(builders[1].current_sentence)
        IN /\ builders' = builders
           /\ Len(reply') = 1
           /\ reply'[1].type = "refined_sentence"
           /\ reply'[1].original = raw
           /\ LET refined == reply'[1].refined
              IN /\ Len(refined) = Len(raw) + 1
                 /\ refined[1] = char_upper(raw[1])
                 /\ \A i \in 1..Len(raw) : char_lower(refined[i]) = char_lower(raw[i])
                 /\ refined[Len(refined)] \in TerminalPunctuation]_vars

(* the provider raised on I LOVE YOU GO and the reply is "I love you go." *)
C12_Witness ==
  /\ op.name = "refine_sentence"
  /\ op.arg = "call_raises"
  /\ builders[1].current_sentence = <<"I LOVE YOU", "GO">>
  /\ reply = << [type |-> "refined_sentence", ws |-> 1,
                 original |-> <<"I", " ", "L", "O", "V", "E", " ", "Y", "O", "U", " ", "G", "O">>,
                 refined |-> <<"I", " ", "l", "o", "v", "e", " ", "y", "o", "u", " ", "g", "o", ".">>] >>
----------------------------------------------------------------------------
(* A session in which one sign is held: every label fed to the builder is  *)
(* the same, the client may send the clear command, and the clock moves in *)
(* steps of half a cooldown.  Every commit carries that label, so          *)
(* last_word_time is the time of the previous commit of the same label     *)
(* (0 before the first).                                                   *)

HeldLabel == "A"

InitHold == ServerInit

NextHold ==
  \/ Connect(1, 1)
  \/ /\ 1 \in DOMAIN handlers
     /\ Len(builders[1].current_sentence) < MaxSentence
     /\ AddPrediction(HeldLabel)
  \/ ClearCommand(1)
  \/ Tick(HalfCooldown, MaxHalfCooldowns * HalfCooldown)

SpecHold == InitHold /\ [][NextHold]_vars

(* a step of add_prediction that appended a token *)
Appended ==
  /\ op'.name = "add_prediction"
  /\ builders # <<>>
  /\ Len(builders'[1].current_sentence) = Len(builders[1].current_sentence) + 1

(* C13 as stated: whatever frames and clear commands came before, a token  *)
(* is appended at least one cooldown after the previous commit of the same *)
(* label.                                                                  *)
C13_AcrossClear ==
  [][(Appended /\ builders[1].last_word_time >= Epoch)
     => now - builders[1].last_word_time >= WORD_COOLDOWN]_vars

(* C13: of two consecutive commits of the same label with no clear between *)
(* them (the sentence still ends in the earlier one), the later is at      *)
(* least one cooldown after the earlier.                                   *)
C13_CommitSpacing ==
  [][(/\ Appended
      /\ builders[1].current_sentence # <<>>
      /\ builders[1].current_sentence[Len(builders[1].current_sentence)] = op'.arg)
     => now - builders[1].last_word_time >= WORD_COOLDOWN]_vars

(* the held label was committed a second time exactly one cooldown after   *)
(* the first *)
C13_Witness ==
  /\ op.name = "add_prediction"
  /\ builders[1].current_sentence = <<HeldLabel, HeldLabel>>
  /\ builders[1].frame_buffer = <<>>
  /\ builders[1].last_word_time = now
  /\ now = Epoch + WORD_COOLDOWN
----------------------------------------------------------------------------
(* Idle sessions: cleanup_old_sessions, lines 1229-1244, and the end of a  *)
(* connection, lines 1358-1360.                                            *)

(* Config.SESSION_TIMEOUT and Config.CLEANUP_INTERVAL, in ms *)
SESSION_TIMEOUT == 3600000
CLEANUP_INTERVAL == 300000

(* rounds of the cleanup task the idle runs follow *)
MaxCleanups == 13

(* variant of the end of a connection that drops the session with it *)
Disconnect_dropping_session(ws) ==
  /\ ws \in DOMAIN handlers
  /\ active_connections' = SelectSeq(active_connections, LAMBDA w : w # ws)
  /\ handlers' = [w \in DOMAIN handlers \ {ws} |-> handlers[w]]
  /\ sessions' = [c \in DOMAIN sessions \ {handlers[ws].client_id} |-> sessions[c]]
  /\ reply' = <<>>
  /\ op' = Op("disconnect", ws, "")
  /\ UNCHANGED <<now, builders, session_last_activity, filters,
                 hand, scored, feed>>

(* lines 1358-1360: receive_text raises WebSocketDisconnect *)
Disconnect(ws) ==
  /\ ws \in DOMAIN handlers
  /\ active_connections' = SelectSeq(active_connections, LAMBDA w : w # ws)
  /\ handlers' = [w \in DOMAIN handlers \ {ws} |-> handlers[w]]
  /\ reply' = <<>>
  /\ op' = Op("disconnect", ws, "")
  /\ UNCHANGED <<now, builders, sessions, session_last_activity, filters,
                 hand, scored, feed>>

(* variant of the selection that takes an id at the timeout itself *)
to_delete_at_timeout(current_time) ==
  {client_id \in DOMAIN session_last_activity :
     current_time - session_last_activity[client_id] >= SESSION_TIMEOUT}

(* the client ids one round of the cleanup deletes at current_time,       *)
(* lines 1234-1238 *)
to_delete(current_time) ==
  {client_id \in DOMAIN session_last_activity :
     current_time - session_last_activity[client_id] > SESSION_TIMEOUT}

(* One round of the loop, lines 1232-1244: the task sleeps for             *)
(* CLEANUP_INTERVAL, counted from start-up, and then deletes the idle ids  *)
(* from both dictionaries.  The clock of the idle runs moves with the      *)
(* sleep of this task.                                                     *)
CleanupOldSessions ==
  /\ now + CLEANUP_INTERVAL <= Epoch + MaxCleanups * CLEANUP_INTERVAL
  /\ now' = now + CLEANUP_INTERVAL
  /\ sessions' = [c \in DOMAIN sessions \ to_delete(now') |-> sessions[c]]
  /\ session_last_activity' =
       [c \in DOMAIN session_last_activity \ to_delete(now') |-> session_last_activity[c]]
  /\ op' = Op("cleanup", 0, "")
  /\ UNCHANGED <<builders, filters, active_connections, handlers, reply,
                 hand, scored, feed>>

(* the rounds of the cleanup task that have passed when the idle runs      *)
(* begin: one less than fill the timeout *)
IdleRounds == SESSION_TIMEOUT \div CLEANUP_INTERVAL - 1

(* The idle runs begin with a session that has been quiet for IdleRounds   *)
(* rounds: client 1 connected at start-up, sent the frame ONE at once and  *)
(* has sent nothing since; its connection is still open.                   *)
InitIdle ==
  /\ now = Epoch + IdleRounds * CLEANUP_INTERVAL
  /\ \E p \in {predict(Frame("ONE"), Epoch, EmptyMap)} :
       /\ builders = << add_prediction(NewSentenceBuilder, p.gesture, Epoch) >>
       /\ filters = p.bank
       /\ reply = << [type |-> "prediction", ws |-> 1, gesture |-> p.gesture,
                      confidence |-> round2(p.confidence), sentence |-> ""] >>
  /\ sessions = (1 :> 1)
  /\ session_last_activity = (1 :> Epoch)
  /\ active_connections = <<1>>
  /\ handlers = (1 :> [client_id |-> 1, sentence_builder |-> 1])
  /\ hand = <<>>
  /\ scored = [gesture |-> None, confidence |-> 0]
  /\ feed = NoFeed
  /\ op = Op("landmarks", 1, "ONE")

NextIdle ==
  \/ \E ws \in WebSockets, c \in Clients : Connect(ws, c)
  \/ \E ws \in WebSockets : Landmarks(ws, "ONE")
  \/ \E ws \in WebSockets : Disconnect(ws)
  \/ CleanupOldSessions

SpecIdle == InitIdle /\ [][NextIdle]_vars

(* C14: once the cleanup has torn the sessions down, their state is gone:  *)
(* a connection that finds no session registered starts with an empty      *)
(* sentence, an empty vote buffer and an empty filter bank.                *)
C14_Released ==
  [][(op'.name = "connect" /\ sessions = EmptyMap)
     => /\ builders'[handlers'[op'.ws].sentence_builder] = NewSentenceBuilder
        /\ filters' = EmptyMap]_vars

(* the stabilizer half of C14, which holds: the builder a connection gets  *)
(* for an id that is not registered is a new one *)
C14_NewBuilder ==
  [][(op'.name = "connect" /\ op'.arg \notin DOMAIN sessions)
     => builders'[handlers'[op'.ws].sentence_builder] = NewSentenceBuilder]_vars
----------------------------------------------------------------------------
(* The vote buffer and the commits of a session, step by step *)

(* the labels of a buffer after one more accepted label: the newest        *)
(* BUFFER_SIZE of them, in order *)
NewestLabels(buffer, label) ==
  LET all == Append(buffer, label)
  IN IF Len(all) > BUFFER_SIZE THEN SubSeq(all, Len(all) - BUFFER_SIZE + 1, Len(all)) ELSE all

(* a full buffer in which some label has the majority *)
MajorityDecision(buffer) ==
  /\ Len(buffer) = BUFFER_SIZE
  /\ \E i \in DOMAIN buffer :
       Occurrences(buffer, buffer[i]) * 100 > BUFFER_SIZE * MAJORITY_THRESHOLD_PCT

(* C15: the vote buffer never holds more than BUFFER_SIZE labels.  An      *)
(* accepted label leaves it holding the newest labels since it was last    *)
(* emptied, the oldest evicted from a full buffer and the rest in order,   *)
(* unless they are a majority decision, which empties it; the clear        *)
(* command empties it; no other step changes it.                           *)
C15_VoteBuffer ==
  [][builders # <<>> =>
     LET buffer == builders[1].frame_buffer
         after == builders'[1].frame_buffer
     IN /\ Len(after) <= BUFFER_SIZE
        /\ CASE op'.name = "add_prediction" ->
                  LET newest == NewestLabels(buffer, op'.arg)
                  IN after = IF MajorityDecision(newest) THEN <<>> ELSE newest
             [] op'.name = "clear" -> after = <<>>
             [] OTHER -> after = buffer]_vars

(* a label has been accepted into a buffer that stays full without a       *)
(* majority: four of each label *)
C15_Witness ==
  /\ op = Op("add_prediction", 0, "B")
  /\ builders[1].frame_buffer = <<"B", "A", "A", "B", "A", "B", "A", "B">>

(* C16: a token is appended only by add_prediction, and only when the      *)
(* buffer already held BUFFER_SIZE - 1 labels or more, that is with the    *)
(* eighth label, or a later one, accepted since the buffer was last empty; *)
(* the step leaves the buffer empty for the next eight.                    *)
C16_EightLabels ==
  [][(/\ builders # <<>>
      /\ Len(builders'[1].current_sentence) > Len(builders[1].current_sentence))
     => /\ op'.name = "add_prediction"
        /\ Len(builders[1].frame_buffer) >= BUFFER_SIZE - 1
        /\ builders'[1].frame_buffer = <<>>]_vars

(* the first token of a session has just been appended *)
C16_Witness ==
  /\ op.name = "add_prediction"
  /\ builders[1].current_sentence = <<op.arg>>
  /\ builders[1].frame_buffer = <<>>
  /\ builders[1].last_word_time = now

(* the label that has the majority of a buffer *)
Winner(buffer) ==
  buffer[CHOOSE i \in DOMAIN buffer :
           Occurrences(buffer, buffer[i]) * 100 > BUFFER_SIZE * MAJORITY_THRESHOLD_PCT]

(* C17: a majority decision for the label the sentence ends in empties the *)
(* buffer either way.  Less than a cooldown after last_word_time it        *)
(* changes neither the sentence nor last_word_time, which therefore stays  *)
(* the time of the last token appended; from one cooldown after that time  *)
(* on, it appends the label again and sets last_word_time.                 *)
C17_SuppressedCommit ==
  [][(/\ op'.name = "add_prediction"
      /\ builders # <<>>
      /\ MajorityDecision(NewestLabels(builders[1].frame_buffer, op'.arg))
      /\ builders[1].current_sentence # <<>>
      /\ builders[1].current_sentence[Len(builders[1].current_sentence)]
           = Winner(NewestLabels(builders[1].frame_buffer, op'.arg)))
     => LET sb == builders[1]
            after == builders'[1]
            winner == Winner(NewestLabels(sb.frame_buffer, op'.arg))
        IN /\ after.frame_buffer = <<>>
           /\ IF now - sb.last_word_time < WORD_COOLDOWN
                THEN /\ after.current_sentence = sb.current_sentence
                     /\ after.last_word_time = sb.last_word_time
                ELSE /\ after.current_sentence = Append(sb.current_sentence, winner)
                     /\ after.last_word_time = now]_vars

(* a repeat of the only token was dropped half a cooldown after it: the    *)
(* buffer is empty and last_word_time is still the time of the token *)
C17_Witness ==
  /\ op = Op("add_prediction", 0, "A")
  /\ builders[1].current_sentence = <<"A">>
  /\ builders[1].frame_buffer = <<>>
  /\ builders[1].last_word_time + HalfCooldown = now
----------------------------------------------------------------------------
(* The matcher on every hand state: each combination of the five finger    *)
(* states, the palm orientation and the outcomes of the special checks.    *)

(* landmarks that make the implemented special checks come out as wanted:  *)
(* the thumb tip (4) on the index tip (8) or away from it, on the middle   *)
(* tip (12) or away from it, and to the right or left of the index         *)
(* knuckle (5) *)
SpecialLandmarks(on_index, on_middle, past_knuckle) ==
  [k \in 1..21 |->
     CASE k = 5 -> <<50, 50, 0>>
       [] k = 9 -> IF on_index THEN <<51, 50, 0>> ELSE <<70, 50, 0>>
       [] k = 13 -> IF on_middle THEN <<50, 51, 0>> ELSE <<50, 70, 0>>
       [] k = 6 -> IF past_knuckle THEN <<40, 0, 0>> ELSE <<60, 0, 0>>
       [] OTHER -> <<0, 0, 0>>]

HandStates ==
  {[fingers |-> fingers, palm_orientation |-> orientation,
    raw_landmarks |-> SpecialLandmarks(on_index, on_middle, past_knuckle),
    timestamp |-> Epoch] :
     fingers \in [Finger -> FingerState], orientation \in Orientation,
     on_index \in BOOLEAN, on_middle \in BOOLEAN, past_knuckle \in BOOLEAN}

(* the lexicon entries that carry a special check *)
SpecialSigns == {d \in SignDefinitions : "special" \in DOMAIN d}

InitLexicon ==
  /\ now = Epoch
  /\ builders = <<>>
  /\ sessions = EmptyMap
  /\ session_last_activity = EmptyMap
  /\ filters = EmptyMap
  /\ active_connections = <<>>
  /\ handlers = EmptyMap
  /\ reply = <<>>
  /\ hand \in {<<h>> : h \in HandStates}
  /\ scored = [gesture |-> None, confidence |-> 0]
  /\ feed = NoFeed
  /\ op = Op("init", 0, "")

NextLexicon ==
  \/ PredictHand
  \/ \E sign_def \in SpecialSigns : ScoreSign(sign_def)

SpecLexicon == InitLexicon /\ [][NextLexicon]_vars

(* the checks of an entry that are scored *)
ScoredChecks(d) ==
  <<d.fingers,
    IF "orientation" \in DOMAIN d THEN {d.orientation} ELSE {},
    IF "special" \in DOMAIN d THEN {d.special} ELSE {}>>

ShadowedNames == {"ONE", "TWO", "U", "V", "FOUR", "PLEASE", "FIVE", "HELLO", "WAIT",
                  "CALL", "PHONE", "LOVE", "MORE", "THANK YOU", "HELP", "FINISHED"}

(* each of the sixteen entries has the scored checks of an entry declared  *)
(* before it *)
ShadowedByEarlier ==
  \A name \in ShadowedNames :
    \E i, j \in DOMAIN get_definitions :
      /\ j < i
      /\ get_definitions[i].name = name
      /\ ScoredChecks(get_definitions[j]) = ScoredChecks(get_definitions[i])

(* C18: predict returns none of the sixteen labels for any hand state,     *)
(* and each of them has the scored checks of an entry declared before it.  *)
C18_Shadowed ==
  /\ op.name = "predict" => scored.gesture \notin ShadowedNames
  /\ ShadowedByEarlier

(* the hand of ONE is answered with the earlier entry of the same checks *)
C18_Witness ==
  /\ op.name = "predict"
  /\ scored = [gesture |-> "1", confidence |-> Scale]
  /\ calculate_match_score(hand[1], Definition("ONE")) = Scale

ImplementedChecks ==
  {"THUMB_INDEX_TOUCH", "THUMB_MIDDLE_TOUCH", "ALL_TIPS_TOUCH", "THUMB_UNDER_INDEX"}

UnimplementedSigns == {"M", "N", "R", "SIX", "NO"}

(* M, N, R, SIX and NO carry a special check that is not implemented *)
UnimplementedSpecials ==
  \A name \in UnimplementedSigns :
    /\ Definition(name) \in SpecialSigns
    /\ Definition(name).special \notin ImplementedChecks

(* C19: an entry whose special check is none of the four implemented ones  *)
(* scores its finger and orientation hits over a total that counts the     *)
(* special check too, which is below 1 for every hand state; M, N, R, SIX  *)
(* and NO are such entries.                                                *)
C19_UnknownSpecial ==
  /\ (op.name = "score" /\ Definition(op.arg).special \notin ImplementedChecks)
       => LET d == Definition(op.arg)
              hits == Cardinality({f \in DOMAIN d.fingers :
                                     hand[1].fingers[f] \in d.fingers[f]})
                      + Indicator("orientation" \in DOMAIN d
                                    /\ hand[1].palm_orientation \in d.orientation)
              total == Cardinality(DOMAIN d.fingers)
                       + Indicator("orientation" \in DOMAIN d) + 1
          IN /\ scored.confidence = (hits * Scale) \div total
             /\ scored.confidence < Scale
  /\ UnimplementedSpecials

(* SIX scored on a hand that meets all its finger checks *)
C19_Witness ==
  /\ op = Op("score", 0, "SIX")
  /\ \A f \in DOMAIN Definition("SIX").fingers :
       hand[1].fingers[f] \in Definition("SIX").fingers[f]
  /\ scored.confidence < Scale
  /\ scored.confidence > 0

(* The labels that end in "me", HOME and COME, are answered for no hand    *)
(* state, so no sentence of a session holds them (the replacements of      *)
(* _basic_refinement look for "me go").                                    *)
NoLabelEndingInMe == op.name = "predict" => scored.gesture \notin {"HOME", "COME"}
----------------------------------------------------------------------------
(* The extractor on frames that differ in the palm: the first pose with    *)
(* the index knuckle and the pinky knuckle moved to every place of a small *)
(* grid around the wrist, so that the components of the palm normal tie in *)
(* every way.                                                              *)

Offsets == {<<x, y, z>> : x \in {-10, 0, 10}, y \in {-10, 0, 10}, z \in {-10, 0, 10}}

PalmFrame(to_index, to_pinky) ==
  [k \in 1..21 |->
     CASE k = 6 -> Add(Wrist, to_index)
       [] k = 18 -> Add(Wrist, to_pinky)
       [] OTHER -> POSE_ONE[k]]

(* extractor.process on the next frame of the feed *)
ProcessFed ==
  /\ feed.fed < Len(feed.frames)
  /\ \E p \in {process(feed.frames[feed.fed + 1], now, filters)} :
       /\ hand' = p.hand_state
       /\ filters' = p.bank
       /\ reply' = IF p.raised THEN << [type |-> "raised"] >> ELSE <<>>
  /\ feed' = [feed EXCEPT !.fed = @ + 1]
  /\ op' = Op("process", 0, "")
  /\ UNCHANGED <<now, builders, sessions, session_last_activity,
                 active_connections, handlers, scored>>

InitPalm ==
  /\ now = Epoch
  /\ builders = <<>>
  /\ sessions = EmptyMap
  /\ session_last_activity = EmptyMap
  /\ filters = EmptyMap
  /\ active_connections = <<>>
  /\ handlers = EmptyMap
  /\ reply = <<>>
  /\ hand = <<>>
  /\ scored = [gesture |-> None, confidence |-> 0]
  /\ \E to_index \in Offsets, to_pinky \in Offsets :
       feed = [frames |-> << PalmFrame(to_index, to_pinky) >>, fed |-> 0]
  /\ op = Op("init", 0, "")

NextPalm == ProcessFed

SpecPalm == InitPalm /\ [][NextPalm]_vars

(* the cross product of wrist -> index knuckle and wrist -> pinky knuckle  *)
(* of the frame fed; normalizing it changes neither the signs nor the      *)
(* order of the magnitudes of its components *)
FedNormal ==
  LET frame == feed.frames[1]
  IN Cross(Sub(LM(frame, 5), LM(frame, 0)), Sub(LM(frame, 17), LM(frame, 0)))

AlongZ(n) == IF n[3] < 0 THEN "FORWARD" ELSE "BACKWARD"
AlongY(n) == IF n[2] < 0 THEN "UP" ELSE "DOWN"
AlongX(n) == IF n[1] < 0 THEN "LEFT" ELSE "RIGHT"

(* C20 as stated: the axis of the greatest magnitude decides, and among    *)
(* equal magnitudes z goes before y and y before x.                        *)
C20_TiesToZ ==
  (op.name = "process" /\ hand # <<>>) =>
     LET n == FedNormal
     IN hand[1].palm_orientation =
          IF Abs(n[3]) >= Abs(n[1]) /\ Abs(n[3]) >= Abs(n[2]) THEN AlongZ(n)
          ELSE IF Abs(n[2]) >= Abs(n[1]) THEN AlongY(n)
          ELSE AlongX(n)

(* C20: z decides only when its magnitude is strictly the greatest;        *)
(* otherwise y decides only when its magnitude is strictly greater than    *)
(* that of x; otherwise x decides.  Equal magnitudes therefore go to x     *)
(* before y and to y before z.                                             *)
C20_Orientation ==
  (op.name = "process" /\ hand # <<>>) =>
     LET n == FedNormal
         z_strict == Abs(n[3]) > Abs(n[1]) /\ Abs(n[3]) > Abs(n[2])
         y_strict == Abs(n[2]) > Abs(n[1])
     IN /\ z_strict => hand[1].palm_orientation = AlongZ(n)
        /\ (~z_strict /\ y_strict) => hand[1].palm_orientation = AlongY(n)
        /\ (~z_strict /\ ~y_strict) => hand[1].palm_orientation = AlongX(n)

(* a normal whose z and x magnitudes tie above y is classified along x *)
C20_Witness ==
  /\ op.name = "process"
  /\ hand # <<>>
  /\ Abs(FedNormal[3]) = Abs(FedNormal[1])
  /\ Abs(FedNormal[3]) > Abs(FedNormal[2])
  /\ FedNormal[1] < 0
  /\ hand[1].palm_orientation = "LEFT"
----------------------------------------------------------------------------
(* The extractor on frames that differ in one finger: the first pose with  *)
(* the three segments of the index, middle, ring or pinky finger laid      *)
(* along every combination of the axes, or of no length; and the           *)
(* classification of analyze_finger on bends at and around the two         *)
(* thresholds.                                                             *)

Segments ==
  {<<0, 0, 0>>, <<5, 0, 0>>, <<-5, 0, 0>>, <<0, 5, 0>>, <<0, -5, 0>>, <<0, 0, 5>>,
   <<0, 0, -5>>}

FourFingers == {"INDEX", "MIDDLE", "RING", "PINKY"}

(* the Python index of the knuckle of a finger, lines 961-965 *)
McpIndex(f) ==
  CASE f = "THUMB" -> 1
    [] f = "INDEX" -> 5
    [] f = "MIDDLE" -> 9
    [] f = "RING" -> 13
    [] f = "PINKY" -> 17

FingerFrame(f, mcp_pip, pip_dip, dip_tip) ==
  LET m == McpIndex(f)
      mcp == LM(POSE_ONE, m)
      pip == Add(mcp, mcp_pip)
      dip == Add(pip, pip_dip)
  IN [k \in 1..21 |->
        CASE k = m + 2 -> pip
          [] k = m + 3 -> dip
          [] k = m + 4 -> Add(dip, dip_tip)
          [] OTHER -> POSE_ONE[k]]

(* total bends in tenths of a degree and squared wrist distances *)
BendValues == {0, 900, 901, 1600, 1601}
WristDistances == {100, 225}

(* lines 988-994 of analyze_finger on a bend and two wrist distances *)
AnalyzeFinger(bend, d_tip_wrist_sq, d_mcp_wrist_sq) ==
  /\ reply' = << [type |-> "finger_state",
                  total_bend |-> bend,
                  tip_nearer |-> d_tip_wrist_sq < d_mcp_wrist_sq,
                  state |-> finger_state(bend, d_tip_wrist_sq, d_mcp_wrist_sq)] >>
  /\ op' = Op("analyze_finger", 0, "")
  /\ UNCHANGED <<now, builders, sessions, session_last_activity, filters,
                 active_connections, handlers, hand, scored, feed>>

InitFinger ==
  /\ now = Epoch
  /\ builders = <<>>
  /\ sessions = EmptyMap
  /\ session_last_activity = EmptyMap
  /\ filters = EmptyMap
  /\ active_connections = <<>>
  /\ handlers = EmptyMap
  /\ reply = <<>>
  /\ hand = <<>>
  /\ scored = [gesture |-> None, confidence |-> 0]
  /\ \E f \in FourFingers, mcp_pip \in Segments, pip_dip \in Segments, dip_tip \in Segments :
       feed = [frames |-> << FingerFrame(f, mcp_pip, pip_dip, dip_tip) >>, fed |-> 0]
  /\ op = Op("init", 0, "")

NextFinger ==
  \/ ProcessFed
  \/ \E bend \in BendValues, d_tip \in WristDistances, d_mcp \in WristDistances :
       AnalyzeFinger(bend, d_tip, d_mcp)

SpecFinger == InitFinger /\ [][NextFinger]_vars

(* the bend of finger f in the frame fed, and whether its tip is nearer    *)
(* to the wrist than its knuckle *)
FedBend(f) ==
  LET frame == feed.frames[1]
      m == McpIndex(f)
  IN total_bend(LM(frame, m), LM(frame, m + 1), LM(frame, m + 2), LM(frame, m + 3))

FedTipNearer(f) ==
  LET frame == feed.frames[1]
      m == McpIndex(f)
  IN NormSq(Sub(LM(frame, m + 3), LM(frame, 0))) < NormSq(Sub(LM(frame, m), LM(frame, 0)))

(* the classification of C21 of a bend in tenths of a degree *)
Classified(bend, tip_nearer, state) ==
  /\ bend > 1600 => state = "FOLDED"
  /\ (bend <= 1600 /\ (bend > 900 \/ tip_nearer)) => state = "CURLED"
  /\ (bend <= 900 /\ ~tip_nearer) => state = "EXTENDED"

(* C21: index, middle, ring and pinky are Folded when the total bend is    *)
(* above 160 degrees, otherwise Curled when it is above 90 degrees or the  *)
(* tip is nearer to the wrist than the knuckle, otherwise Extended; the    *)
(* comparisons are strict and Folded goes before the distance test.        *)
C21_FingerState ==
  /\ (op.name = "process" /\ hand # <<>>) =>
       \A f \in FourFingers :
         /\ hand[1].finger_angles[f] = FedBend(f)
         /\ Classified(FedBend(f), FedTipNearer(f), hand[1].fingers[f])
  /\ op.name = "analyze_finger" =>
       Classified(reply[1].total_bend, reply[1].tip_nearer, reply[1].state)

(* a finger of a frame bent by exactly 90 degrees with the tip farther     *)
(* from the wrist than the knuckle came out Extended, and a bend just      *)
(* above 160 degrees with the tip nearer was then classified Folded *)
C21_Witness ==
  /\ hand # <<>>
  /\ \E f \in FourFingers :
       /\ FedBend(f) = 900
       /\ ~FedTipNearer(f)
       /\ hand[1].fingers[f] = "EXTENDED"
  /\ op.name = "analyze_finger"
  /\ reply[1].total_bend = 1601
  /\ reply[1].tip_nearer
  /\ reply[1].state = "FOLDED"
----------------------------------------------------------------------------
(* The extractor on frames that differ in the thumb: the first pose with   *)
(* the thumb knuckle at its place or behind the pinky knuckle, and the     *)
(* thumb tip on a grid around the thumb knuckle or next to the pinky       *)
(* knuckle; and the thumb classification on angles and distances at and    *)
(* around the two thresholds.                                              *)

ThumbKnuckles == {<<40, 50, -12>>, <<61, 50, -21>>}

ThumbReach == {<<x, y, z>> : x \in {-10, 0, 10}, y \in {-10, 0, 10}, z \in {-10, 0, 10}}

NearPinkyKnuckle == {<<0, 0, 0>>, <<3, 0, 0>>, <<4, 0, 0>>, <<6, 0, 0>>, <<0, 6, 0>>}

ThumbTips(thumb_mcp) ==
  {Add(thumb_mcp, reach) : reach \in ThumbReach}
    \cup {Add(LM(POSE_ONE, 17), by) : by \in NearPinkyKnuckle}

ThumbFrame(thumb_mcp, thumb_tip) ==
  [k \in 1..21 |->
     CASE k = 3 -> thumb_mcp
       [] k = 5 -> thumb_tip
       [] OTHER -> POSE_ONE[k]]

(* angles in tenths of a degree and squared distances in hundredths *)
ThumbAngles == {0, 600, 601, 1800}
PinkyDistances == {0, 24, 25, 400}

(* lines 1008-1017 on an angle and a distance *)
AnalyzeThumb(angle, d_tip_pinky_sq) ==
  /\ reply' = << [type |-> "thumb_state",
                  angle |-> angle,
                  d_tip_pinky_sq |-> d_tip_pinky_sq,
                  state |-> thumb_classify(angle, d_tip_pinky_sq)] >>
  /\ op' = Op("analyze_thumb", 0, "")
  /\ UNCHANGED <<now, builders, sessions, session_last_activity, filters,
                 active_connections, handlers, hand, scored, feed>>

InitThumb ==
  /\ now = Epoch
  /\ builders = <<>>
  /\ sessions = EmptyMap
  /\ session_last_activity = EmptyMap
  /\ filters = EmptyMap
  /\ active_connections = <<>>
  /\ handlers = EmptyMap
  /\ reply = <<>>
  /\ hand = <<>>
  /\ scored = [gesture |-> None, confidence |-> 0]
  /\ \E thumb_mcp \in ThumbKnuckles :
       \E thumb_tip \in ThumbTips(thumb_mcp) :
         feed = [frames |-> << ThumbFrame(thumb_mcp, thumb_tip) >>, fed |-> 0]
  /\ op = Op("init", 0, "")

NextThumb ==
  \/ ProcessFed
  \/ \E angle \in ThumbAngles, d_tip_pinky_sq \in PinkyDistances :
       AnalyzeThumb(angle, d_tip_pinky_sq)

SpecThumb == InitThumb /\ [][NextThumb]_vars

(* in the frame fed: the angle between thumb knuckle -> thumb tip and      *)
(* wrist -> index knuckle, and whether the thumb tip is within 0.05 of     *)
(* the pinky knuckle *)
FedThumbAngle ==
  LET frame == feed.frames[1]
  IN calculate_angle(Sub(LM(frame, 4), LM(frame, 2)), Sub(LM(frame, 5), LM(frame, 0)))

FedThumbAtPinky ==
  LET frame == feed.frames[1]
  IN NormSq(Sub(LM(frame, 4), LM(frame, 17))) < 25

(* the classification of C22 *)
ThumbClassified(angle, at_pinky, state) ==
  /\ at_pinky => state = "FOLDED"
  /\ (~at_pinky /\ angle > 600) => state = "FOLDED"
  /\ (~at_pinky /\ angle <= 600) => state = "EXTENDED"

(* C22: the thumb is Folded when the angle between its knuckle-to-tip      *)
(* vector and the wrist-to-index-knuckle vector exceeds 60 degrees and     *)
(* Extended otherwise, except that a tip within 0.05 of the pinky knuckle  *)
(* makes it Folded whatever the angle.                                     *)
C22_ThumbState ==
  /\ (op.name = "process" /\ hand # <<>>) =>
       ThumbClassified(FedThumbAngle, FedThumbAtPinky, hand[1].fingers["THUMB"])
  /\ op.name = "analyze_thumb" =>
       ThumbClassified(reply[1].angle, reply[1].d_tip_pinky_sq < 25, reply[1].state)

(* a thumb pointing along the wrist-to-index-knuckle vector with its tip   *)
(* on the pinky knuckle came out Folded *)
C22_Witness ==
  /\ op.name = "process"
  /\ hand # <<>>
  /\ FedThumbAngle <= 600
  /\ FedThumbAtPinky
  /\ hand[1].fingers["THUMB"] = "FOLDED"
----------------------------------------------------------------------------
(* The thumb in the HandState and in the lexicon *)

(* the lexicon entries whose thumb check accepts Curled only *)
CurledThumbSigns ==
  {get_definitions[i].name : i \in
     {j \in DOMAIN get_definitions :
        /\ "fingers" \in DOMAIN get_definitions[j]
        /\ "THUMB" \in DOMAIN get_definitions[j].fingers
        /\ get_definitions[j].fingers["THUMB"] = {"CURLED"}}}

CurledThumbSignsAreFive == CurledThumbSigns = {"HOME", "FRIEND", "TIRED", "FOOD", "MORE"}

(* C23: in every HandState of the extractor the thumb is Extended or       *)
(* Folded, never Curled, and its recorded angle is 0; the entries HOME,    *)
(* FRIEND, TIRED, FOOD and MORE, the ones that accept only Curled for the  *)
(* thumb, never score 1.                                                   *)
C23_ThumbNeverCurled ==
  /\ hand # <<>> =>
       /\ hand[1].fingers["THUMB"] \in {"EXTENDED", "FOLDED"}
       /\ hand[1].finger_angles["THUMB"] = 0
  /\ CurledThumbSignsAreFive
  /\ (op.name = "score" /\ op.arg \in CurledThumbSigns) => scored.confidence < Scale

(* HOME scored on a hand with all four fingers Curled: four of its five    *)
(* checks are met *)
C23_Witness ==
  /\ op = Op("score", 0, "HOME")
  /\ \A f \in {"INDEX", "MIDDLE", "RING", "PINKY"} : hand[1].fingers[f] = "CURLED"
  /\ scored.confidence * 5 = 4 * Scale
----------------------------------------------------------------------------
(* The special checks on frames that differ in the finger tips: the first  *)
(* pose with the index and middle tips at a small distance from the thumb  *)
(* tip or far from it, the ring and pinky tips on the thumb tip or far     *)
(* from it, and the index knuckle left of, level with or right of the      *)
(* thumb tip.  Each check is scored through a definition that has no       *)
(* other check, so that the score is 1 when it passes and 0 when not.      *)

ThumbTip == <<50, 50, -20>>

(* offsets of length 0, 0.04, sqrt(0.0027), 0.05, 0.05, 0.04 and 0.2 *)
TipOffsets ==
  {<<0, 0, 0>>, <<4, 0, 0>>, <<3, 3, 3>>, <<3, 4, 0>>, <<5, 0, 0>>, <<0, 0, -4>>,
   <<20, 0, 0>>}

KnuckleShifts == {-1, 0, 1}

TipsFrame(to_index, to_middle, others_far, knuckle_shift) ==
  [k \in 1..21 |->
     CASE k = 5 -> ThumbTip
       [] k = 6 -> <<ThumbTip[1] + knuckle_shift, 50, -30>>
       [] k = 9 -> Add(ThumbTip, to_index)
       [] k = 13 -> Add(ThumbTip, to_middle)
       [] k \in {17, 21} -> IF others_far THEN Add(ThumbTip, <<0, 30, 0>>) ELSE ThumbTip
       [] OTHER -> POSE_ONE[k]]

(* definitions with a special check and nothing else *)
SpecialOnly ==
  {[name |-> check_type, special |-> check_type] :
     check_type \in {"THUMB_INDEX_TOUCH", "THUMB_MIDDLE_TOUCH", "ALL_TIPS_TOUCH",
                     "THUMB_UNDER_INDEX"}}

InitSpecial ==
  /\ now = Epoch
  /\ builders = <<>>
  /\ sessions = EmptyMap
  /\ session_last_activity = EmptyMap
  /\ filters = EmptyMap
  /\ active_connections = <<>>
  /\ handlers = EmptyMap
  /\ reply = <<>>
  /\ \E to_index \in TipOffsets, to_middle \in TipOffsets, others_far \in BOOLEAN,
        knuckle_shift \in KnuckleShifts :
       hand = process(TipsFrame(to_index, to_middle, others_far, knuckle_shift),
                      Epoch, EmptyMap).hand_state
  /\ scored = [gesture |-> None, confidence |-> 0]
  /\ feed = NoFeed
  /\ op = Op("init", 0, "")

NextSpecial == \E sign_def \in SpecialOnly : ScoreSign(sign_def)

SpecSpecial == InitSpecial /\ [][NextSpecial]_vars

(* the squared distance, in hundredths, between landmarks i and j of the   *)
(* hand scored *)
TipDistanceSq(i, j) ==
  NormSq(Sub(LM(hand[1].raw_landmarks, i), LM(hand[1].raw_landmarks, j)))

(* C24: THUMB_INDEX_TOUCH passes iff landmarks 4 and 8 are less than 0.05  *)
(* apart, THUMB_MIDDLE_TOUCH iff 4 and 12 are, ALL_TIPS_TOUCH iff 8 and 12 *)
(* are each less than 0.05 from 4, whatever the ring and pinky tips, and   *)
(* THUMB_UNDER_INDEX iff the x of landmark 4 is greater than the x of      *)
(* landmark 5.                                                             *)
C24_SpecialChecks ==
  op.name = "score" =>
    LET passed == scored.confidence = Scale
        x(i) == LM(hand[1].raw_landmarks, i)[1]
    IN /\ scored.confidence \in {0, Scale}
       /\ op.arg = "THUMB_INDEX_TOUCH" => (passed <=> TipDistanceSq(4, 8) < 25)
       /\ op.arg = "THUMB_MIDDLE_TOUCH" => (passed <=> TipDistanceSq(4, 12) < 25)
       /\ op.arg = "ALL_TIPS_TOUCH" =>
            (passed <=> (TipDistanceSq(8, 4) < 25 /\ TipDistanceSq(12, 4) < 25))
       /\ op.arg = "THUMB_UNDER_INDEX" => (passed <=> x(4) > x(5))

(* ALL_TIPS_TOUCH passed with the ring and pinky tips 0.3 away from the    *)
(* thumb tip *)
C24_Witness ==
  /\ op = Op("score", 0, "ALL_TIPS_TOUCH")
  /\ scored.confidence = Scale
  /\ TipDistanceSq(16, 4) = 900
  /\ TipDistanceSq(20, 4) = 900
----------------------------------------------------------------------------
(* The filter bank, channel by channel: lines 929-931 for one channel      *)
(* index and one value, at the time the clock shows.  time.time() is the   *)
(* wall clock: between two calls it may have moved on, stood still or      *)
(* been set back.                                                          *)

MaxChannelTicks == 2
MaxChannelCalls == 3

Channels == {0, 1}
ChannelValues == {40, 60, NoNumber}

(* self._get_filter(idx, t, x)(t, x) with t the time of the clock *)
SmoothChannel(idx, x) ==
  /\ feed.fed < MaxChannelCalls
  /\ \E s \in {smooth_channel(filters, idx, now, x)} :
       /\ filters' = s.bank
       /\ reply' = << [type |-> "smoothed", idx |-> idx, t |-> now, x |-> x,
                       out |-> s.out, raised |-> s.raised] >>
  /\ feed' = [feed EXCEPT !.fed = @ + 1]
  /\ op' = Op("smooth_channel", 0, "")
  /\ UNCHANGED <<now, builders, sessions, session_last_activity,
                 active_connections, handlers, hand, scored>>

(* the wall clock is set back by one frame interval *)
ClockSetBack ==
  /\ now - FrameInterval >= Epoch
  /\ now' = now - FrameInterval
  /\ op' = Op("clock_set_back", 0, "")
  /\ UNCHANGED <<server_vars, matcher_vars, feed>>

InitChannel == ServerInit

NextChannel ==
  \/ \E idx \in Channels, x \in ChannelValues : SmoothChannel(idx, x)
  \/ \E name \in {"ONE", "NONE"} : Process(name)
  \/ Tick(FrameInterval, MaxChannelTicks * FrameInterval)
  \/ ClockSetBack

SpecChannel == InitChannel /\ [][NextChannel]_vars

(* C25: a call of a channel's filter at a time not after its t_prev        *)
(* returns the raw value and leaves x_prev, dx_prev and t_prev as they     *)
(* were; so does a second call with the time and value of a call that      *)
(* returned.                                                               *)
C25_NoElapsedTime ==
  [][op'.name = "smooth_channel" =>
       LET call == reply'[1]
       IN /\ (call.idx \in DOMAIN filters /\ call.t - filters[call.idx].t_prev <= 0)
               => /\ call.out = call.x
                  /\ ~call.raised
                  /\ filters' = filters
          /\ (/\ op.name = "smooth_channel"
              /\ reply[1].idx = call.idx
              /\ reply[1].t = call.t
              /\ reply[1].x = call.x
              /\ ~reply[1].raised)
               => /\ call.out = call.x
                  /\ filters' = filters]_vars

(* a channel that had smoothed a value was called after the clock had      *)
(* been set back, with another value *)
C25_Witness ==
  /\ op.name = "smooth_channel"
  /\ reply[1].t < filters[reply[1].idx].t_prev
  /\ reply[1].x # filters[reply[1].idx].x_prev
  /\ reply[1].x # NoNumber
  /\ filters[reply[1].idx].dx_prev # 0

(* the bank cut down to the channel idx *)
Only(bank, idx) == [i \in DOMAIN bank \cap {idx} |-> bank[i]]

(* C27: filter state is kept per channel under the index landmark * 3 +    *)
(* axis and created on the first value of that index; filtering a value    *)
(* on one channel creates or changes the state of that channel only, and   *)
(* its result depends on that channel's state only.                        *)
C27_ChannelsApart ==
  [][/\ op'.name = "smooth_channel" =>
          LET call == reply'[1]
              alone == smooth_channel(Only(filters, call.idx), call.idx, call.t, call.x)
          IN /\ DOMAIN filters' = DOMAIN filters \cup {call.idx}
             /\ \A i \in DOMAIN filters \ {call.idx} : filters'[i] = filters[i]
             /\ call.idx \notin DOMAIN filters
                  => filters'[call.idx] =
                       [t_prev |-> call.t, x_prev |-> call.x, dx_prev |-> 0]
             /\ call.out = alone.out
             /\ filters'[call.idx] = alone.bank[call.idx]
     /\ (op'.name = "process" /\ ~smooth_landmarks(Frame(op'.arg), now, filters).fell_back) =>
          LET frame == Frame(op'.arg)
          IN /\ DOMAIN filters' = DOMAIN filters \cup (0..(3 * Len(frame) - 1))
             /\ hand' # <<>>
             /\ \A i \in 0..(Len(frame) - 1) : \A axis \in 0..2 :
                  LET idx == i * 3 + axis
                      alone == smooth_channel(Only(filters, idx), idx, now,
                                              LM(frame, i)[axis + 1])
                  IN /\ filters'[idx] = alone.bank[idx]
                     /\ LM(hand'[1].raw_landmarks, i)[axis + 1] = alone.out]_vars

(* a frame was smoothed on a bank in which channel 1 had a history and     *)
(* the other channels had none *)
C27_Witness ==
  /\ op.name = "process"
  /\ hand # <<>>
  /\ DOMAIN filters = 0..62
  /\ filters[1].dx_prev # 0
  /\ filters[0].dx_prev = 0
  /\ filters[1].x_prev # LM(Frame(op.arg), 0)[2]
  /\ filters[0].x_prev = LM(Frame(op.arg), 0)[1]
----------------------------------------------------------------------------
(* The first frame of a filter bank *)

(* the value smooth_landmarks reads for a coordinate: lm.get('x'),         *)
(* lm.get('y') and lm.get('z', 0), lines 925-927 *)
ReadValue(lm, key) == IF key = 3 THEN dict_get_or_0(lm, key) ELSE dict_get(lm, key)

(* C26: on a bank without filters each channel is created from the time    *)
(* and the value of the frame and called with them, so no time has         *)
(* elapsed: the frame comes through with its raw coordinates, and each     *)
(* channel holds the raw value afterwards.                                 *)
C26_FirstFrame ==
  [][(op'.name = "process" /\ filters = EmptyMap) =>
       LET frame == Frame(op'.arg)
           first == smooth_landmarks(frame, now, filters)
       IN /\ ~first.fell_back
          /\ Len(first.coords) = Len(frame)
          /\ DOMAIN filters' = 0..(3 * Len(frame) - 1)
          /\ \A i \in 0..(Len(frame) - 1) : \A key \in 1..3 :
               /\ LM(first.coords, i)[key] = ReadValue(LM(frame, i), key)
               /\ filters'[i * 3 + key - 1] =
                    [t_prev |-> now, x_prev |-> ReadValue(LM(frame, i), key), dx_prev |-> 0]
          /\ hand' # <<>> => hand'[1].raw_landmarks = first.coords
          /\ op'.arg \in {"ONE", "NONE"} => hand' # <<>>]_vars

(* the first pose came through a bank without filters unchanged *)
C26_Witness ==
  /\ op = Op("process", 0, "ONE")
  /\ feed.fed = 1
  /\ hand # <<>>
  /\ hand[1].raw_landmarks = POSE_ONE
  /\ \A idx \in 0..62 : filters[idx].t_prev = now /\ filters[idx].dx_prev = 0
----------------------------------------------------------------------------
(* Eviction of idle sessions *)

(* the client a step other than a cleanup round is about: the one that     *)
(* connects, or the one of the connection the message came on *)
ClientOf(o, hs) == IF o.name = "connect" THEN o.arg ELSE hs[o.ws].client_id

(* C28: a cleanup round removes a client id from sessions and from         *)
(* session_last_activity exactly when more than SESSION_TIMEOUT has        *)
(* passed since the id's last message or connect, with or without an open  *)
(* connection; nothing else removes an id; and every id in sessions is in  *)
(* session_last_activity.                                                  *)
C28_IdleEviction ==
  [][/\ DOMAIN sessions \subseteq DOMAIN session_last_activity
     /\ DOMAIN sessions' \subseteq DOMAIN session_last_activity'
     /\ op'.name = "cleanup" =>
          \A c \in DOMAIN session_last_activity :
            IF now' - session_last_activity[c] > SESSION_TIMEOUT
              THEN c \notin DOMAIN sessions' /\ c \notin DOMAIN session_last_activity'
              ELSE /\ c \in DOMAIN session_last_activity'
                   /\ session_last_activity'[c] = session_last_activity[c]
                   /\ c \in DOMAIN sessions => (c \in DOMAIN sessions' /\ sessions'[c] = sessions[c])
     /\ op'.name \in {"connect", "landmarks"} =>
          /\ session_last_activity'[ClientOf(op', handlers')] = now'
          /\ \A c \in DOMAIN session_last_activity \ {ClientOf(op', handlers')} :
               c \in DOMAIN session_last_activity'
                 /\ session_last_activity'[c] = session_last_activity[c]
          /\ DOMAIN sessions \subseteq DOMAIN sessions'
     /\ op'.name = "disconnect" =>
          /\ session_last_activity' = session_last_activity
          /\ sessions' = sessions]_vars

(* a cleanup round has evicted client 1, idle for more than the timeout,   *)
(* while its connection was open, after a round at exactly the timeout     *)
(* had left it in place *)
C28_Witness ==
  /\ op.name = "cleanup"
  /\ now = Epoch + (IdleRounds + 2) * CLEANUP_INTERVAL
  /\ 1 \notin DOMAIN sessions
  /\ 1 \notin DOMAIN session_last_activity
  /\ \E ws \in DOMAIN handlers : handlers[ws].client_id = 1
----------------------------------------------------------------------------
(* Disconnects and reconnects.  The runs begin with a session that has a   *)
(* sentence: client 1 connected at start-up and sent the frame ONE nine    *)
(* times at once, which committed "1" and left one vote in the buffer; it  *)
(* has been quiet for IdleRounds rounds of the cleanup since.              *)

RECURSIVE Repeated(_, _, _, _)
Repeated(sb, label, t, n) ==
  IF n = 0 THEN sb ELSE Repeated(add_prediction(sb, label, t), label, t, n - 1)

InitReconnect ==
  /\ now = Epoch + IdleRounds * CLEANUP_INTERVAL
  /\ \E p \in {predict(Frame("ONE"), Epoch, EmptyMap)} :
       \E sb \in {Repeated(NewSentenceBuilder, p.gesture, Epoch, BUFFER_SIZE + 1)} :
         /\ builders = << sb >>
         /\ filters = p.bank
         /\ reply = << [type |-> "prediction", ws |-> 1, gesture |-> p.gesture,
                        confidence |-> round2(p.confidence),
                        sentence |-> get_sentence(sb)] >>
  /\ sessions = (1 :> 1)
  /\ session_last_activity = (1 :> Epoch)
  /\ active_connections = <<1>>
  /\ handlers = (1 :> [client_id |-> 1, sentence_builder |-> 1])
  /\ hand = <<>>
  /\ scored = [gesture |-> None, confidence |-> 0]
  /\ feed = NoFeed
  /\ op = Op("landmarks", 1, "ONE")

SpecReconnect == InitReconnect /\ [][NextIdle]_vars

(* the connection ws holds the SentenceBuilder registered under its id *)
Registered(hs, ss, ws) ==
  /\ hs[ws].client_id \in DOMAIN ss
  /\ ss[hs[ws].client_id] = hs[ws].sentence_builder

(* C29 as stated: any two connections open under one client id hold the    *)
(* same SentenceBuilder.                                                   *)
C29_OneBuilderPerId ==
  \A ws1, ws2 \in DOMAIN handlers :
    handlers[ws1].client_id = handlers[ws2].client_id
      => handlers[ws1].sentence_builder = handlers[ws2].sentence_builder

(* C29: a disconnect leaves sessions and every SentenceBuilder as they     *)
(* are; a connect under a registered id takes the registered builder       *)
(* unchanged; a connection holds the builder registered under its id       *)
(* until a cleanup round evicts the id, so connections under one id share  *)
(* the builder unless the id was evicted between their connects; and a     *)
(* message changes the builder of its connection only.                     *)
C29_SessionOutlivesConnection ==
  [][/\ op'.name = "disconnect" =>
          /\ sessions' = sessions
          /\ builders' = builders
          /\ session_last_activity' = session_last_activity
     /\ op'.name = "connect" =>
          /\ Registered(handlers', sessions', op'.ws)
          /\ op'.arg \in DOMAIN sessions =>
               /\ sessions' = sessions
               /\ builders' = builders
     /\ \A ws \in DOMAIN handlers \cap DOMAIN handlers' :
          /\ handlers'[ws] = handlers[ws]
          /\ (Registered(handlers, sessions, ws) /\ op'.name # "cleanup")
               => Registered(handlers', sessions', ws)
     /\ \A ws1, ws2 \in DOMAIN handlers :
          (/\ handlers[ws1].client_id = handlers[ws2].client_id
           /\ Registered(handlers, sessions, ws1)
           /\ Registered(handlers, sessions, ws2))
            => handlers[ws1].sentence_builder = handlers[ws2].sentence_builder
     /\ op'.name = "landmarks" =>
          /\ Len(builders') = Len(builders)
          /\ \A b \in 1..Len(builders) :
               b # handlers[op'.ws].sentence_builder => builders'[b] = builders[b]]_vars

(* client 1 has disconnected and connected again before the eviction: it   *)
(* is back on the builder with its sentence, its vote and its timestamp *)
C29_Witness ==
  /\ op = Op("connect", 1, 1)
  /\ DOMAIN handlers = {1}
  /\ sessions = (1 :> 1)
  /\ handlers[1].sentence_builder = 1
  /\ Len(builders) = 1
  /\ builders[1].current_sentence = <<"1">>
  /\ builders[1].frame_buffer = <<"1">>
  /\ builders[1].last_word_time = Epoch
----------------------------------------------------------------------------
(* Messages and their replies on one connection.  The runs begin with a    *)
(* session one vote short of a decision: client 1 connected at start-up    *)
(* and sent the frame ONE seven times at once.                             *)

MaxMessages == 3

MessageFrames == {"ONE", "NONE", "SHORT", "EMPTY", "NO_X_5"}

(* a "landmarks" message read by the handler of ws *)
LandmarksMessage(ws, name) ==
  /\ feed.fed < MaxMessages
  /\ HandleLandmarks(ws, name, Frame(name))
  /\ feed' = [feed EXCEPT !.fed = @ + 1]

InitReply ==
  /\ now = Epoch
  /\ \E p \in {predict(Frame("ONE"), Epoch, EmptyMap)} :
       \E sb \in {Repeated(NewSentenceBuilder, p.gesture, Epoch, BUFFER_SIZE - 1)} :
         /\ builders = << sb >>
         /\ filters = p.bank
         /\ reply = << [type |-> "prediction", ws |-> 1, gesture |-> p.gesture,
                        confidence |-> round2(p.confidence),
                        sentence |-> get_sentence(sb)] >>
  /\ sessions = (1 :> 1)
  /\ session_last_activity = (1 :> Epoch)
  /\ active_connections = <<1>>
  /\ handlers = (1 :> [client_id |-> 1, sentence_builder |-> 1])
  /\ hand = <<>>
  /\ scored = [gesture |-> None, confidence |-> 0]
  /\ feed = NoFeed
  /\ op = Op("landmarks", 1, "ONE")

NextReply ==
  \/ \E name \in MessageFrames : LandmarksMessage(1, name)
  \/ \E outcome \in Outcomes, answer \in ProviderTexts : RefineSentence(1, outcome, answer)
  \/ ClearCommand(1)
  \/ Tick(FrameInterval, MaxFrameTicks * FrameInterval)

SpecReply == InitReply /\ [][NextReply]_vars

(* C30: a landmarks message with a non-empty list is answered, within the  *)
(* step that reads it, by exactly one message: an error when processing    *)
(* raised, otherwise a prediction whose sentence is the sentence after the *)
(* vote of that frame.  A landmarks message with an empty list and a       *)
(* refine_sentence message on an empty sentence are answered by nothing.   *)
C30_OneReply ==
  [][/\ op'.name = "landmarks" =>
          LET frame == Frame(op'.arg)
              b == handlers[op'.ws].sentence_builder
          IN IF frame = <<>>
               THEN reply' = <<>> /\ builders' = builders
               ELSE /\ Len(reply') = 1
                    /\ reply'[1].ws = op'.ws
                    /\ IF process(frame, now, filters).raised
                         THEN reply'[1].type = "error"
                         ELSE /\ reply'[1].type = "prediction"
                              /\ reply'[1].sentence = get_sentence(builders'[b])
     /\ (/\ op'.name = "refine_sentence"
         /\ builders[handlers[op'.ws].sentence_builder].current_sentence = <<>>)
          => reply' = <<>>]_vars

(* the eighth frame committed "1" and the reply to it carries the new      *)
(* sentence *)
C30_Witness ==
  /\ op = Op("landmarks", 1, "ONE")
  /\ builders[1].current_sentence = <<"1">>
  /\ builders[1].frame_buffer = <<>>
  /\ Len(reply) = 1
  /\ reply[1].type = "prediction"
  /\ reply[1].sentence = get_sentence(builders[1])
  /\ reply[1].sentence # get_sentence(NewSentenceBuilder)

(* processing raised and the message was answered by an error *)
C30_ErrorReached ==
  /\ op.name = "landmarks"
  /\ Len(reply) = 1
  /\ reply[1].type = "error"
=============================================================================
